---- MODULE Spec2Model ----
(***************************************************************************)
(* Verification model of the chrono24 scraper: the inline concurrency      *)
(* limiter (createLimiter), the first revision of scrapeChrono24 with its  *)
(* detail enrichment (server.js), and the list scanner / walker            *)
(* scrapeListPage / scrapeList (part_002).                                 *)
(***************************************************************************)
EXTENDS Integers, Sequences, FiniteSets, TLC

VARIABLES
    \* ---- createLimiter closure state (server.js 46-70) ----
    concurrency,   \* the limit the limiter was created with
    active,        \* let active
    queue,         \* const queue (task numbers, FIFO)
    tstate,        \* per submitted function: "new","queued","running","settled","released"
    outcome,       \* per submitted function: "none","fulfilled","rejected"
    starts,        \* per submitted function: how many times fn was invoked
    lpc,           \* position of the caller that owns the limiter
    \* ---- scrapeChrono24, first revision (server.js 551-606) ----
    spc,           \* position inside scrapeChrono24
    pageSize,      \* const pageSize
    maxPages,      \* const maxPages
    expectedCount, \* const expectedCount (Null or a number)
    totalPages,    \* const totalPages
    all,           \* const all = new Map(): insertion-ordered sequence of records
    pagesScraped,  \* let pagesScraped
    p,             \* loop variable p (the page being fetched)
    byId,          \* scrapeOnePage: const byId (sequence of [id, url])
    pitems,        \* scrapeOnePage: const items
    pcount,        \* scrapeOnePage: const expectedCount of the page
    items,         \* const items = [...all.values()]
    missingPrices, \* const missingPrices: positions in items of the dispatched records
    epc,           \* per dispatched record: position inside enrichFromDetail
    rej,           \* per dispatched record: class of the error attempt() rejected with
    result,        \* the value scrapeChrono24 returned
    error,         \* the error scrapeChrono24 threw
    cache,         \* const cache: the entry under cacheKey
    \* ---- scrapeListPage (part_002 206-265); scrapeList (part_002 267-300) has the
    \* locals pageSize, maxPages, expectedCount, all, pagesScraped and p of above ----
    filtered,      \* let filtered: the links the dedup loop runs over
    \* ---- POST /api/scrape with withPrices and the job queries (part_002 454-616) ----
    listOut,       \* listOut.items: the listings scrapeList returned
    store,         \* the Redis entry under jobId
    rpc,           \* position inside the POST /api/scrape handler
    response,      \* what the handler sent with res.json / res.status(500).json
    jpc,           \* position inside the background worker
    batchStart,    \* loop variable i of the worker
    results,       \* const results of the worker
    err,           \* the error handed to the worker's .catch handler
    writes,        \* history: the records written under jobId, in order
    query,         \* a status / results request: its position, parameters and reply
    \* ---- getBrowser (part_002 100-121) ----
    browserInstance, \* let browserInstance (0 is null, else the instance number)
    gpc,           \* per caller: position inside getBrowser
    got,           \* per caller: the instance its call resolved to (0: none yet)
    launched,      \* history: the instances chromium.launch has produced
    \* ---- scrapeChrono24's cache lookup (server.js 81-94, 551-558) ----
    reqUrl,        \* the url argument of the call
    noCache,       \* const noCache
    now,           \* Date.now(), in units of the model
    cache0,        \* history: the cache when the call started
    \* ---- scrapePrices (part_004 115-164) ----
    listings,      \* job.data.listings
    enrichConcurrency, \* CONFIG.enrichConcurrency (const limit)
    batches,       \* const batches
    sliceStart,    \* loop variable i of the slicing loop
    wcur,          \* index in batches of the batch being processed
    wpc,           \* position inside scrapePrices
    tpc,           \* per listing of the batch: position inside the mapped function
    priceResults,  \* const results
    \* ---- getBrowser(forceNew) and its callers (server.js 100-139, 560, 641-682) ----
    route,         \* per caller: the handler that called getBrowser
    closed,        \* history: the instances close() was called on
    proxyUrl,      \* const PROXY_URL
    currentBrowserProxy  \* let currentBrowserProxy

limiterVars == <<concurrency, active, queue, tstate, outcome, starts, lpc>>

scrapeVars == <<spc, pageSize, maxPages, expectedCount, totalPages, all, pagesScraped,
                p, byId, pitems, pcount, items, missingPrices, epc, rej, result,
                error, cache, filtered>>

jobVars == <<listOut, store, rpc, response, jpc, batchStart, results, err, writes, query>>

browserVars == <<browserInstance, gpc, got, launched>>

callVars == <<reqUrl, noCache, now, cache0>>

workerVars == <<listings, enrichConcurrency, batches, sliceStart, wcur, wpc, tpc, priceResults>>

shareVars == <<route, closed, proxyUrl, currentBrowserProxy>>

serviceVars == <<jobVars, browserVars, callVars, workerVars, shareVars>>

vars == <<limiterVars, scrapeVars, serviceVars>>

\* JavaScript null: of a string-valued field, of a number-valued field, of an object
Null == "null"
NoNum == 0 - 1
None == <<>>
Some(x) == <<x>>

(***************************************************************************)
(* Bounds of the limiter model.                                            *)
(***************************************************************************)
MaxConcurrency == 3
MaxTasks == 4

(***************************************************************************)
(* createLimiter: runNext and the returned submit function, as pure        *)
(* operators over the closure state L = [active, queue, started].          *)
(* started lists the jobs whose fn this call chain has just launched.      *)
(***************************************************************************)
runNextUnguarded(c, L) ==
    IF L.queue = <<>> THEN L
    ELSE [active  |-> L.active + 1,
          queue   |-> Tail(L.queue),
          started |-> Append(L.started, Head(L.queue))]

runNext(c, L) ==
    IF L.active >= c THEN L
    ELSE IF L.queue = <<>> THEN L
    ELSE [active  |-> L.active + 1,
          queue   |-> Tail(L.queue),
          started |-> Append(L.started, Head(L.queue))]

\* (fn) => new Promise(... queue.push({fn, resolve, reject}); runNext(); )
limit(c, L, t) == runNext(c, [L EXCEPT !.queue = Append(@, t)])

\* missingPrices.map((it) => limit(...)): the synchronous submission loop
RECURSIVE submitAll(_, _, _)
submitAll(c, L, ts) ==
    IF ts = <<>> THEN L
    ELSE submitAll(c, limit(c, L, Head(ts)), Tail(ts))

\* .finally(() => { active--; runNext(); })
finallyNoRunNext(c, L) == [L EXCEPT !.active = @ - 1]

finallyStep(c, L) == runNext(c, [L EXCEPT !.active = @ - 1])

Range(s) == {s[i] : i \in DOMAIN s}

CurL == [active |-> active, queue |-> queue, started |-> <<>>]

\* effect of a closure-state change on the bookkeeping of the submitted functions
ApplyL(L, ts) ==
    /\ active' = L.active
    /\ queue' = L.queue
    /\ tstate' = [t \in DOMAIN ts |->
                    IF t \in Range(L.started) THEN "running" ELSE ts[t]]
    /\ starts' = [t \in DOMAIN starts |->
                    IF t \in Range(L.started) THEN starts[t] + 1 ELSE starts[t]]

CallIdle ==
    /\ reqUrl = "" /\ noCache = FALSE /\ now = 0 /\ cache0 = <<>>

WorkerIdle ==
    /\ listings = <<>> /\ enrichConcurrency = 0 /\ batches = <<>> /\ sliceStart = 0
    /\ wcur = 0 /\ wpc = "idle" /\ tpc = <<>> /\ priceResults = <<>>

ShareIdle ==
    /\ route = <<>> /\ closed = {} /\ proxyUrl = Null /\ currentBrowserProxy = Null

\* the job route and the browser singleton while no request is modelled
JobIdle ==
    /\ listOut = <<>> /\ store = <<>> /\ rpc = "idle" /\ response = <<>>
    /\ jpc = "idle" /\ batchStart = 0 /\ results = <<>> /\ err = "" /\ writes = <<>>
    /\ query = <<>>

BrowserIdle ==
    /\ browserInstance = 0 /\ gpc = <<>> /\ got = <<>> /\ launched = {}

\* the scrapeChrono24 variables while no call is modelled
ScrapeIdle ==
    /\ spc = "idle" /\ pageSize = 0 /\ maxPages = 0 /\ expectedCount = NoNum
    /\ totalPages = 0 /\ all = <<>> /\ pagesScraped = 0 /\ p = 0
    /\ byId = <<>> /\ pitems = <<>> /\ pcount = NoNum /\ items = <<>>
    /\ missingPrices = <<>> /\ epc = <<>> /\ rej = <<>>
    /\ result = None /\ error = None /\ cache = None /\ filtered = <<>>

(***************************************************************************)
(* Specification of the limiter alone, used as scrapeChrono24 uses it:     *)
(* one synchronous submission of n functions, then completions in any      *)
(* order.  A function may fulfil or reject.                                *)
(***************************************************************************)
LimiterInit ==
    /\ concurrency \in 1..MaxConcurrency
    /\ \E n \in 1..MaxTasks :
         /\ tstate = [t \in 1..n |-> "new"]
         /\ outcome = [t \in 1..n |-> "none"]
         /\ starts = [t \in 1..n |-> 0]
    /\ active = 0
    /\ queue = <<>>
    /\ lpc = "create"
    /\ ScrapeIdle
    /\ JobIdle /\ BrowserIdle /\ CallIdle /\ WorkerIdle /\ ShareIdle

\* await Promise.all(missingPrices.map((it) => limit(fn)))  -- submission part
Dispatch ==
    /\ lpc = "create"
    /\ lpc' = "awaitAll"
    /\ LET n == Len(tstate)
           L == submitAll(concurrency, CurL, [t \in 1..n |-> t])
       IN  ApplyL(L, [t \in 1..n |-> "queued"])
    /\ UNCHANGED <<concurrency, outcome, scrapeVars, serviceVars>>

\* fn's promise settles and .then(resolve, reject) settles the caller's promise
Settle(t, ok) ==
    /\ lpc # "create"
    /\ t \in DOMAIN tstate
    /\ tstate[t] = "running"
    /\ tstate' = [tstate EXCEPT ![t] = "settled"]
    /\ outcome' = [outcome EXCEPT ![t] = IF ok THEN "fulfilled" ELSE "rejected"]
    /\ UNCHANGED <<concurrency, active, queue, starts, lpc, scrapeVars, serviceVars>>

\* the .finally callback of that chain
Finally(t) ==
    /\ lpc # "create"
    /\ t \in DOMAIN tstate
    /\ tstate[t] = "settled"
    /\ ApplyL(finallyStep(concurrency, CurL), [tstate EXCEPT ![t] = "released"])
    /\ UNCHANGED <<concurrency, outcome, lpc, scrapeVars, serviceVars>>

\* the continuation of await Promise.all: every promise fulfilled, or one rejected
AwaitAllDone ==
    /\ lpc = "awaitAll"
    /\ \/ \A t \in DOMAIN tstate : tstate[t] = "released"
       \/ \E t \in DOMAIN tstate : tstate[t] = "released" /\ outcome[t] = "rejected"
    /\ lpc' = IF \E t \in DOMAIN tstate : outcome[t] = "rejected"
              THEN "rejected" ELSE "resumed"
    /\ UNCHANGED <<concurrency, active, queue, tstate, outcome, starts, scrapeVars, serviceVars>>

LimiterNext ==
    \/ Dispatch
    \/ \E t \in DOMAIN tstate, ok \in BOOLEAN : Settle(t, ok)
    \/ \E t \in DOMAIN tstate : Finally(t)
    \/ AwaitAllDone

LimiterSpec == LimiterInit /\ [][LimiterNext]_vars

\* every started function eventually settles; microtasks always run
LimiterFair ==
    /\ WF_vars(Dispatch)
    /\ \A t \in 1..MaxTasks : WF_vars(\E ok \in BOOLEAN : Settle(t, ok))
    /\ \A t \in 1..MaxTasks : WF_vars(Finally(t))

LimiterFairSpec == LimiterInit /\ [][LimiterNext]_vars /\ LimiterFair

(***************************************************************************)
(* C1: the limiter never has more than `concurrency` submitted functions   *)
(* running at once: active stays in 0..concurrency, and the number of      *)
(* functions started and not yet released equals active.                   *)
(***************************************************************************)
InFlight == {t \in DOMAIN tstate : tstate[t] \in {"running", "settled"}}

C1_ActiveBounded ==
    /\ active \in 0..concurrency
    /\ Cardinality(InFlight) = active
    /\ Cardinality({t \in DOMAIN tstate : tstate[t] = "running"}) <= concurrency

\* the pool is saturated while functions still wait in the queue
C1_Witness ==
    /\ active = concurrency
    /\ queue # <<>>
    /\ \E t \in DOMAIN tstate : tstate[t] = "released"

(***************************************************************************)
(* C2: every submitted function is started exactly once and its promise    *)
(* settled; a slot is released on fulfilment and on rejection; nothing is  *)
(* dropped; in the end the queue is empty and active is 0.                 *)
(***************************************************************************)
AllReleased == \A t \in DOMAIN tstate : tstate[t] = "released"

C2_NoStarvation ==
    /\ [](\A t \in DOMAIN tstate :
            /\ starts[t] <= 1
            /\ (tstate[t] \in {"running", "settled", "released"} <=> starts[t] = 1)
            /\ (tstate[t] = "queued" <=> t \in Range(queue)))
    /\ [](AllReleased => (queue = <<>> /\ active = 0))
    /\ <>[](/\ AllReleased
            /\ \A t \in DOMAIN tstate : starts[t] = 1 /\ outcome[t] # "none"
            /\ queue = <<>>
            /\ active = 0)

\* more functions than slots, one of them rejected, and all were served
C2_Witness ==
    /\ Len(tstate) > concurrency
    /\ AllReleased
    /\ \E t \in DOMAIN tstate : outcome[t] = "rejected"
    /\ \E t \in DOMAIN tstate : outcome[t] = "fulfilled"
    /\ queue = <<>> /\ active = 0

(***************************************************************************)
(* ----------------  server.js, first revision: data  -------------------- *)
(* Bounds of the scrape model.                                             *)
(***************************************************************************)
MaxId == 2          \* listing ids are 1..MaxId
MaxPageSize == 2    \* opts.pageSize ranges over 1..MaxPageSize
MaxPages == 2       \* opts.maxPages ranges over 1..MaxPages
MaxExpected == 2    \* the count read from page 1 ranges over null, 0..MaxExpected
MaxLinks == MaxId   \* anchors matched on one result page

\* CONFIG (server.js 28-43)
detailConcurrency == 3
detailRetryCount == 1

CeilDiv(a, b) == (a + b - 1) \div b
MinFirst(a, b) == a

Min(a, b) == IF a < b THEN a ELSE b

\* all sequences over S of length 0..n
SeqsUpTo(S, n) == UNION {[1..k -> S] : k \in 0..n}

(***************************************************************************)
(* An href is abstracted to what the code reads of it: the digits that     *)
(* follow "--id" (0: none), whether ".htm" follows, and the query string.  *)
(***************************************************************************)
Hrefs1 ==
    {[digits |-> d, htm |-> TRUE, q |-> 0] : d \in 1..MaxId}
    \cup {[digits |-> 0, htm |-> TRUE, q |-> 0], [digits |-> 1, htm |-> FALSE, q |-> 0]}

\* const m = (url || "").match(/--id(\d+)\.htm/i); return m ? m[1] : null
extractListingId(url) == IF url.digits > 0 /\ url.htm THEN url.digits ELSE NoNum

(***************************************************************************)
(* Text of a price element, by the patterns the code tests on it.          *)
(***************************************************************************)
Euro(v) == [k |-> "euro", v |-> v]
TxtShipping == [k |-> "shipping", v |-> 0]
TxtOnRequest == [k |-> "onrequest", v |-> 0]
TxtEmpty == [k |-> "empty", v |-> 0]
NoEl == [k |-> "absent", v |-> 0]

(***************************************************************************)
(* A run of digits is abstracted to its value (0: no digit at all).        *)
(* Overlong stands for a run of digits beyond the largest double (310     *)
(* nines, say), which Number() maps to Infinity; Infinity is above every   *)
(* amount of the model.                                                    *)
(***************************************************************************)
Overlong == 0 - 2
Infinity == 1000 * 1000 * 1000

\* Number(String(c).replace(/[^\d]/g, ""))
Number(c) == IF c = Overlong THEN Infinity ELSE c

\* Number.isFinite(v)
isFinite(v) == v # Infinity

\* parseEuroFromText: the amount when a pattern matches, is finite and > 100, else null
parseEuroFromText(t) ==
    IF t.k = "euro" /\ isFinite(Number(t.v)) /\ Number(t.v) > 100
    THEN Number(t.v) ELSE NoNum

(***************************************************************************)
(* A card: what the selectors of the card extractors find.                 *)
(*   title   : text of the first title selector that matches, or NoTitle   *)
(*   meta    : digits of meta[itemprop=price] content (NoNum: no element)  *)
(*   onReq   : card innerText carries "prix sur demande|price on request"  *)
(*   priceEls: per price selector, the element text or NoEl                *)
(***************************************************************************)
NoTitle == <<>>

Cards ==
    { [title |-> <<"Submariner">>, country |-> "DE", sponsored |-> FALSE,
       meta |-> 1500, onReq |-> FALSE, priceEls |-> <<NoEl, NoEl, NoEl>>],
      [title |-> <<"Speedmaster">>, country |-> Null, sponsored |-> TRUE,
       meta |-> NoNum, onReq |-> FALSE, priceEls |-> <<TxtShipping, Euro(2500), NoEl>>],
      [title |-> <<"Nautilus">>, country |-> "FR", sponsored |-> FALSE,
       meta |-> NoNum, onReq |-> TRUE, priceEls |-> <<TxtOnRequest, NoEl, NoEl>>],
      [title |-> NoTitle, country |-> Null, sponsored |-> FALSE,
       meta |-> NoNum, onReq |-> FALSE, priceEls |-> <<Euro(Overlong), NoEl, NoEl>>],
      [title |-> NoTitle, country |-> Null, sponsored |-> FALSE,
       meta |-> 0, onReq |-> FALSE, priceEls |-> <<TxtEmpty, Euro(50), TxtShipping>>] }

\* the selector loop of extractPriceFromCard (server.js 317-329)
RECURSIVE priceFromSelectors(_)
priceFromSelectors(els) ==
    IF els = <<>> THEN [price |-> NoNum, priceSource |-> "missing"]
    ELSE LET t == Head(els) IN
         IF t.k = "absent" THEN priceFromSelectors(Tail(els))
         ELSE IF t.k = "empty" THEN priceFromSelectors(Tail(els))
         ELSE IF t.k \in {"shipping", "plus"} THEN priceFromSelectors(Tail(els))
         ELSE IF t.k = "onrequest" THEN [price |-> NoNum, priceSource |-> "on-request"]
         ELSE IF parseEuroFromText(t) # NoNum
              THEN [price |-> parseEuroFromText(t), priceSource |-> "card-dom"]
              ELSE priceFromSelectors(Tail(els))

extractPriceFromCard(card) ==
    IF card.meta # NoNum /\ Number(card.meta) > 0
    THEN [price |-> Number(card.meta), priceSource |-> "card-meta"]
    ELSE IF card.onReq THEN [price |-> NoNum, priceSource |-> "on-request"]
    ELSE priceFromSelectors(card.priceEls)

Placeholder(id) == <<"Listing", id>>   \* `Listing ${v.id}`

\* step 7 of scrapeOnePage: the record built for one byId entry
cardItem(v, card) ==
    LET pr == extractPriceFromCard(card) IN
    [id |-> v.id, url |-> v.url,
     title |-> IF card.title # NoTitle THEN card.title ELSE Placeholder(v.id),
     country |-> card.country, isSponsored |-> card.sponsored,
     price |-> pr.price, priceSource |-> pr.priceSource]

(***************************************************************************)
(* Map operations on an insertion-ordered sequence of records keyed by id. *)
(***************************************************************************)
MapHas(m, id) == \E i \in DOMAIN m : m[i].id = id
MapGet(m, id) == m[CHOOSE i \in DOMAIN m : m[i].id = id]

MapSetAppend(m, it) == Append(m, it)

\* Map.prototype.set: replaces the value of an existing key in place
MapSet(m, it) ==
    IF MapHas(m, it.id)
    THEN [i \in DOMAIN m |-> IF m[i].id = it.id THEN it ELSE m[i]]
    ELSE Append(m, it)

MapOfPage(m, its) == its

RECURSIVE MapSetAll(_, _)
\* new Map(first.items.map(...)) and for (const it of items) all.set(it.id, it)
MapSetAll(m, its) ==
    IF its = <<>> THEN m ELSE MapSetAll(MapSet(m, Head(its)), Tail(its))

(***************************************************************************)
(* scrapeOnePage steps 3-6: links -> filtered -> byId (first id wins)      *)
(***************************************************************************)
\* 4) with the page-wide selector, prefer the links inside <main>
filterLinks(selectorUsed, links) ==
    LET pref == IF selectorUsed = "anySel" /\ (\E i \in DOMAIN links : links[i].inMain)
                THEN SelectSeq(links, LAMBDA x : x.inMain)
                ELSE links
    IN  SelectSeq(pref, LAMBDA x : x.href.htm)

RECURSIVE buildById(_, _)
buildById(acc, links) ==
    IF links = <<>> THEN acc
    ELSE LET id == extractListingId(Head(links).href) IN
         IF id = NoNum \/ MapHas(acc, id)
         THEN buildById(acc, Tail(links))
         ELSE buildById(Append(acc, [id |-> id, url |-> Head(links).href]), Tail(links))

(***************************************************************************)
(* A detail document: what the attempt of enrichFromDetail reads.          *)
(*   meta   : digits of meta[itemprop=price] content, NoNum: absent        *)
(*            (Overlong: beyond the largest double)                        *)
(*   jsonld : the ld+json blocks; a block either fails JSON.parse or holds *)
(*            candidates [offers, graph], offers the digits of             *)
(*            offers.price (NoNum: absent), graph those of the @graph      *)
(*            entries                                                      *)
(*   onReq  : the body text carries the on-request phrase                  *)
(***************************************************************************)
Cand(o, g) == [offers |-> o, graph |-> g]
Block(cs) == [parses |-> TRUE, cands |-> cs]
BadBlock == [parses |-> FALSE, cands |-> <<>>]

DetailDocs ==
    { [meta |-> 3000, jsonld |-> <<>>, onReq |-> FALSE],
      [meta |-> 0, jsonld |-> << BadBlock, Block(<<Cand(0, <<NoNum>>), Cand(3200, <<>>)>>) >>,
       onReq |-> TRUE],
      [meta |-> NoNum, jsonld |-> << Block(<<Cand(NoNum, <<0, 3200>>)>>) >>, onReq |-> FALSE],
      [meta |-> Overlong, jsonld |-> <<>>, onReq |-> FALSE],
      [meta |-> NoNum, jsonld |-> << Block(<<Cand(NoNum, <<0>>)>>) >>, onReq |-> TRUE],
      [meta |-> NoNum, jsonld |-> <<>>, onReq |-> FALSE] }

\* for (const g of c["@graph"]): the first g.offers.price with v > 0
RECURSIVE firstPrice(_)
firstPrice(ns) ==
    IF ns = <<>> THEN NoNum
    ELSE IF Head(ns) # NoNum /\ Number(Head(ns)) > 0 THEN Number(Head(ns))
    ELSE firstPrice(Tail(ns))

\* for (const c of candidates): offers.price first, then the @graph entries
RECURSIVE candidatesPrice(_)
candidatesPrice(cs) ==
    IF cs = <<>> THEN NoNum
    ELSE LET c == Head(cs) IN
         IF c.offers # NoNum /\ Number(c.offers) > 0 THEN Number(c.offers)
         ELSE IF firstPrice(c.graph) # NoNum THEN firstPrice(c.graph)
         ELSE candidatesPrice(Tail(cs))

\* for (const raw of jsonlds): a block that fails JSON.parse is skipped
RECURSIVE jsonldPrice(_)
jsonldPrice(blocks) ==
    IF blocks = <<>> THEN NoNum
    ELSE IF ~Head(blocks).parses THEN jsonldPrice(Tail(blocks))
    ELSE IF candidatesPrice(Head(blocks).cands) # NoNum
         THEN candidatesPrice(Head(blocks).cands)
    ELSE jsonldPrice(Tail(blocks))

attemptTakesTitle(item, doc) ==
    IF doc.meta # NoNum /\ Number(doc.meta) > 0
    THEN [item EXCEPT !.price = Number(doc.meta), !.priceSource = "detail-meta",
                      !.title = <<"Detail">>]
    ELSE [item EXCEPT !.priceSource = "missing"]

\* the body of attempt() once the page has loaded (server.js 343-396)
attempt(item, doc) ==
    IF doc.meta # NoNum /\ Number(doc.meta) > 0
    THEN [item EXCEPT !.price = Number(doc.meta), !.priceSource = "detail-meta"]
    ELSE IF jsonldPrice(doc.jsonld) # NoNum
    THEN [item EXCEPT !.price = jsonldPrice(doc.jsonld), !.priceSource = "detail-jsonld"]
    ELSE IF doc.onReq
    THEN [item EXCEPT !.price = NoNum, !.priceSource = "on-request"]
    ELSE [item EXCEPT !.priceSource = "missing"]

(***************************************************************************)
(* ------------  server.js, first revision: scrapeChrono24  -------------- *)
(***************************************************************************)
ExpectedCounts == {NoNum} \cup 0..MaxExpected

\* the anchors a result page can hold: every href inside <main>, two listing
\* links outside it
Anchors1 ==
    {[href |-> h, inMain |-> TRUE] : h \in Hrefs1}
    \cup {[href |-> [digits |-> d, htm |-> TRUE, q |-> 0], inMain |-> FALSE] : d \in {1, MaxId}}

IsAboveOne(n) == n # NoNum /\ n > 1

\* typeof n === "number" && n > 0
IsPositiveNumber(n) == n # NoNum /\ n > 0

\* lines 597-605: the final count check, then the result is cached and returned
Finish(its, ec, scraped) ==
    IF IsPositiveNumber(ec) /\ Len(its) # ec
    THEN /\ error' = Some([kind |-> "mismatch",
                           meta |-> Some([expectedCount |-> ec, got |-> Len(its),
                                          pagesScraped |-> scraped, pageSize |-> pageSize,
                                          sample |-> SubSeq(its, 1, Min(5, Len(its)))])])
         /\ spc' = "thrown"
         /\ UNCHANGED <<result, cache>>
    ELSE /\ result' = Some([expectedCount |-> ec, count |-> Len(its),
                            pageSize |-> pageSize, pagesScraped |-> scraped,
                            items |-> its])
         /\ cache' = result'
         /\ spc' = "returned"
         /\ UNCHANGED error

needsDetailNoPrice(it) == it.price = NoNum

\* it.priceSource === "missing"
needsDetail(it) == it.priceSource = "missing"

RECURSIVE positionsOf(_, _)
positionsOf(its, i) ==
    IF i > Len(its) THEN <<>>
    ELSE IF needsDetail(its[i]) THEN <<i>> \o positionsOf(its, i + 1)
    ELSE positionsOf(its, i + 1)

\* lines 582-595 (and 597-605 when nothing is dispatched), run without suspension
\* once the last page has been merged
Walked(a, ec, scraped) ==
    LET mp == positionsOf(a, 1)
        n  == Len(mp)
        L  == submitAll(concurrency, CurL, [t \in 1..n |-> t])
    IN  /\ items' = a
        /\ missingPrices' = mp
        /\ IF n > 0
           THEN /\ active' = L.active
                /\ queue' = L.queue
                /\ tstate' = [t \in 1..n |->
                                IF t \in Range(L.started) THEN "running" ELSE "queued"]
                /\ starts' = [t \in 1..n |-> IF t \in Range(L.started) THEN 1 ELSE 0]
                /\ outcome' = [t \in 1..n |-> "none"]
                /\ epc' = [t \in 1..n |->
                                IF t \in Range(L.started) THEN "attempt1" ELSE "idle"]
                /\ rej' = [t \in 1..n |-> "none"]
                /\ spc' = "awaitAll"
                /\ UNCHANGED <<result, error, cache>>
           ELSE /\ Finish(a, ec, scraped)
                /\ UNCHANGED <<active, queue, tstate, starts, outcome, epc, rej>>

ScrapeInit ==
    /\ JobIdle /\ BrowserIdle /\ CallIdle /\ WorkerIdle /\ ShareIdle
    /\ spc = "start"
    /\ pageSize \in 1..MaxPageSize
    /\ maxPages \in 1..MaxPages
    /\ expectedCount = NoNum /\ totalPages = 0 /\ all = <<>> /\ pagesScraped = 0
    /\ p = 0 /\ byId = <<>> /\ pitems = <<>> /\ pcount = NoNum /\ items = <<>>
    /\ missingPrices = <<>> /\ epc = <<>> /\ rej = <<>>
    /\ result = None /\ error = None /\ cache = None /\ filtered = <<>>
    /\ concurrency = detailConcurrency
    /\ active = 0 /\ queue = <<>> /\ tstate = <<>> /\ outcome = <<>> /\ starts = <<>>
    /\ lpc = "scrape"

walkVars == <<serviceVars, pageSize, maxPages, expectedCount, totalPages, all, pagesScraped, p,
              byId, pitems, pcount, filtered>>
tailVars == <<items, missingPrices, epc, rej, result, error, cache>>
poolVars == <<active, queue, tstate, outcome, starts>>

\* lines 552-562: empty cache, browser obtained, page 1 requested
ScrapeStart ==
    /\ spc = "start"
    /\ spc' = "fetch"
    /\ p' = 1
    /\ UNCHANGED <<serviceVars, pageSize, maxPages, expectedCount, totalPages, all, pagesScraped,
                   byId, pitems, pcount, filtered, tailVars, limiterVars>>

\* scrapeOnePage rejects (createPage or page.goto failed); scrapeChrono24 rejects
FetchThrow ==
    /\ spc = "fetch"
    /\ spc' = "thrown"
    /\ error' = Some([kind |-> "fetch", meta |-> None])
    /\ UNCHANGED <<walkVars, items, missingPrices, epc, rej, result, cache, limiterVars>>

\* neither selector attached: return { expectedCount: 0, items: [] }
FetchNoLinks ==
    /\ spc = "fetch"
    /\ spc' = "pageDone"
    /\ byId' = <<>>
    /\ pitems' = <<>>
    /\ pcount' = 0
    /\ UNCHANGED <<serviceVars, pageSize, maxPages, expectedCount, totalPages, all, pagesScraped, p,
                   filtered, tailVars, limiterVars>>

\* steps 2-6 of scrapeOnePage.  The caller reads expectedCount of page 1 only,
\* so the count of a later page is not drawn.
FetchLinks ==
    /\ spc = "fetch"
    /\ \E selectorUsed \in {"mainSel", "anySel"},
          links \in SeqsUpTo(Anchors1, MaxLinks),
          count \in (IF p = 1 THEN ExpectedCounts ELSE {NoNum}) :
         /\ links # <<>>
         /\ selectorUsed = "mainSel" => \A i \in DOMAIN links : links[i].inMain
         /\ LET kept == filterLinks(selectorUsed, links)
                ids == buildById(<<>>, kept)
            IN  /\ byId' = ids
                /\ spc' = IF ids = <<>> THEN "pageDone" ELSE "cards"
         /\ pcount' = count
    /\ pitems' = <<>>
    /\ UNCHANGED <<serviceVars, pageSize, maxPages, expectedCount, totalPages, all, pagesScraped, p,
                   filtered, tailVars, limiterVars>>

\* step 7 of scrapeOnePage: one iteration of the extraction loop
ExtractCard ==
    /\ spc = "cards"
    /\ \E card \in Cards :
         pitems' = Append(pitems, cardItem(byId[Len(pitems) + 1], card))
    /\ spc' = IF Len(pitems) + 1 = Len(byId) THEN "pageDone" ELSE "cards"
    /\ UNCHANGED <<serviceVars, pageSize, maxPages, expectedCount, totalPages, all, pagesScraped, p,
                   byId, pcount, filtered, tailVars, limiterVars>>

totalPagesOf(ec, ps, mp) ==
    IF IsPositiveNumber(ec) THEN Min(mp, CeilDiv(ec, ps)) ELSE 1

\* The pagination loop has ended: p and totalPages are read no more, and the
\* records of the Map are from now on reached through items ([...all.values()]).
LoopOver == p' = 0 /\ totalPages' = 0 /\ all' = <<>>

\* The frame of scrapeOnePage (byId, items, expectedCount) is gone once it returned.
\* page 1 returned: lines 565-572, then the loop test; with a single page the code
\* runs on into the dispatch without suspension.  maxPages is read for totalPages
\* only.
MergeFirst ==
    /\ spc = "pageDone" /\ p = 1
    /\ expectedCount' = pcount
    /\ pagesScraped' = 1
    /\ maxPages' = 0
    /\ IF 2 <= totalPagesOf(pcount, pageSize, maxPages)
       THEN /\ totalPages' = totalPagesOf(pcount, pageSize, maxPages)
            /\ all' = MapSetAll(<<>>, pitems)
            /\ p' = 2
            /\ spc' = "fetch"
            /\ UNCHANGED <<tailVars, poolVars>>
       ELSE /\ LoopOver
            /\ Walked(MapSetAll(<<>>, pitems), pcount, 1)
    /\ byId' = <<>> /\ pitems' = <<>> /\ pcount' = NoNum
    /\ UNCHANGED <<serviceVars, pageSize, filtered, concurrency, lpc>>

\* page p >= 2 returned: lines 577-578
MergePage ==
    /\ spc = "pageDone" /\ p >= 2
    /\ all' = MapSetAll(all, pitems)
    /\ pagesScraped' = p
    /\ spc' = "sleep"
    /\ byId' = <<>> /\ pitems' = <<>> /\ pcount' = NoNum
    /\ UNCHANGED <<serviceVars, pageSize, maxPages, expectedCount, totalPages, p, filtered, tailVars,
                   limiterVars>>

\* the inter-page sleep ends: p++ and the loop test
AfterSleep ==
    /\ spc = "sleep"
    /\ IF p + 1 <= totalPages
       THEN /\ p' = p + 1
            /\ spc' = "fetch"
            /\ UNCHANGED <<totalPages, all, tailVars, poolVars>>
       ELSE /\ LoopOver
            /\ Walked(all, expectedCount, pagesScraped)
    /\ UNCHANGED <<serviceVars, pageSize, maxPages, expectedCount, pagesScraped,
                   byId, pitems, pcount, filtered, concurrency, lpc>>

(***************************************************************************)
(* enrichFromDetail for the record of task t (server.js 335-420)           *)
(***************************************************************************)
InAttempt(t) == t \in DOMAIN epc /\ epc[t] \in {"attempt1", "attempt2"}

\* attempt() runs to its return: the record is mutated, enrichFromDetail returns
TaskAttemptReturn(t) ==
    /\ spc = "awaitAll"
    /\ InAttempt(t)
    /\ \E doc \in DetailDocs :
         items' = [items EXCEPT ![missingPrices[t]] = attempt(@, doc)]
    /\ epc' = [epc EXCEPT ![t] = "pause"]
    /\ UNCHANGED <<walkVars, missingPrices, rej, result, error, cache, spc, limiterVars>>

\* attempt() rejects before it touched the record (createPage, goto, a page call)
TaskAttemptThrow(t) ==
    /\ spc = "awaitAll"
    /\ InAttempt(t)
    /\ \E kind \in {"timeout", "other"} : rej' = [rej EXCEPT ![t] = kind]
    /\ epc' = [epc EXCEPT ![t] = IF epc[t] = "attempt1" THEN "threw1" ELSE "threw2"]
    /\ UNCHANGED <<walkVars, items, missingPrices, result, error, cache, spc, limiterVars>>

retryBoth(t) == TRUE

\* /Timeout/i.test(msg) && CONFIG.detailRetryCount > 0
retryWanted(t) == rej[t] = "timeout" /\ detailRetryCount > 0

catchTagError(stage) == "detail-error"

\* the tag the catch block that caught the rejection writes
catchTag(stage) == IF stage = "threw1" THEN "detail-error" ELSE "detail-timeout"

\* the catch blocks (lines 404-419)
TaskCatch(t) ==
    /\ spc = "awaitAll"
    /\ t \in DOMAIN epc
    /\ epc[t] \in {"threw1", "threw2"}
    /\ IF epc[t] = "threw1" /\ retryWanted(t)
       THEN /\ epc' = [epc EXCEPT ![t] = "backoff"]
            /\ UNCHANGED items
       ELSE /\ items' = [items EXCEPT ![missingPrices[t]] =
                            [@ EXCEPT !.price = NoNum, !.priceSource = catchTag(epc[t])]]
            /\ epc' = [epc EXCEPT ![t] = "pause"]
    /\ rej' = [rej EXCEPT ![t] = "none"]
    /\ UNCHANGED <<walkVars, missingPrices, result, error, cache, spc, limiterVars>>

\* await sleep(500) ends and the second attempt starts
TaskBackoffDone(t) ==
    /\ spc = "awaitAll"
    /\ t \in DOMAIN epc
    /\ epc[t] = "backoff"
    /\ epc' = [epc EXCEPT ![t] = "attempt2"]
    /\ UNCHANGED <<walkVars, items, missingPrices, rej, result, error, cache, spc,
                   limiterVars>>

\* the sleep after enrichFromDetail ends: fn fulfils, resolve, then the finally
\* callback frees the slot and starts the next queued function
TaskSettle(t) ==
    /\ spc = "awaitAll"
    /\ t \in DOMAIN epc
    /\ epc[t] = "pause"
    /\ LET L == finallyStep(concurrency, CurL) IN
         /\ ApplyL(L, [tstate EXCEPT ![t] = "released"])
         /\ epc' = [u \in DOMAIN epc |->
                      IF u = t THEN "done"
                      ELSE IF u \in Range(L.started) THEN "attempt1" ELSE epc[u]]
    /\ outcome' = [outcome EXCEPT ![t] = "fulfilled"]
    /\ UNCHANGED <<walkVars, items, missingPrices, rej, result, error, cache, spc,
                   concurrency, lpc>>

anySettled(ts) == \E t \in DOMAIN ts : ts[t] = "released"

\* Promise.all over functions that never reject: fulfilled when all are
allSettled(ts) == \A t \in DOMAIN ts : ts[t] = "released"

\* await Promise.all(...) resumes: lines 597-605
Reconcile ==
    /\ spc = "awaitAll"
    /\ allSettled(tstate)
    /\ Finish(items, expectedCount, pagesScraped)
    /\ UNCHANGED <<walkVars, items, missingPrices, epc, rej, limiterVars>>

ScrapeNext ==
    \/ ScrapeStart
    \/ FetchThrow
    \/ FetchNoLinks
    \/ FetchLinks
    \/ ExtractCard
    \/ MergeFirst
    \/ MergePage
    \/ AfterSleep
    \/ \E t \in 1..MaxId : TaskAttemptReturn(t)
    \/ \E t \in 1..MaxId : TaskAttemptThrow(t)
    \/ \E t \in 1..MaxId : TaskCatch(t)
    \/ \E t \in 1..MaxId : TaskBackoffDone(t)
    \/ \E t \in 1..MaxId : TaskSettle(t)
    \/ Reconcile

ScrapeSpec == ScrapeInit /\ [][ScrapeNext]_vars

(***************************************************************************)
(* ---------------  claims about scrapeChrono24 (first revision)  -------- *)
(***************************************************************************)
Ended == spc \in {"returned", "thrown"}

\* the call ended after the whole walk and the enrichment (no list page failed)
WalkEnded == Ended /\ (error = None \/ error[1].kind = "mismatch")

(***************************************************************************)
(* C3: when the walk was cut short by maxPages (fewer pages walked than    *)
(* ceil(expectedCount / pageSize)) and fewer than expectedCount records    *)
(* were collected, the call returns a result flagged partial and does not  *)
(* throw.                                                                  *)
(***************************************************************************)
CutShort ==
    /\ WalkEnded
    /\ expectedCount # NoNum /\ expectedCount > 0
    /\ pagesScraped < CeilDiv(expectedCount, pageSize)
    /\ Len(items) < expectedCount

C3_CutShortReturnsPartial ==
    CutShort => /\ spc = "returned"
                /\ error = None
                /\ result # None
                /\ "partial" \in DOMAIN result[1]

(***************************************************************************)
(* C4: when expectedCount is a positive number, every needed page was      *)
(* walked and the number of records differs from expectedCount, the call   *)
(* throws the mismatch error, whose meta carries expectedCount, got,       *)
(* pagesScraped, pageSize and the first 5 records; no result is returned.  *)
(***************************************************************************)
FullWalkMismatch ==
    /\ WalkEnded
    /\ expectedCount # NoNum /\ expectedCount > 0
    /\ pagesScraped = CeilDiv(expectedCount, pageSize)
    /\ Len(items) # expectedCount

C4_FullWalkMismatchThrows ==
    FullWalkMismatch =>
        /\ spc = "thrown"
        /\ result = None
        /\ cache = None
        /\ error # None
        /\ error[1].kind = "mismatch"
        /\ error[1].meta = Some([expectedCount |-> expectedCount,
                                 got |-> Len(items),
                                 pagesScraped |-> pagesScraped,
                                 pageSize |-> pageSize,
                                 sample |-> SubSeq(items, 1, Min(5, Len(items)))])

\* two pages were needed and walked, they held the same listing, the call threw
C4_Witness ==
    /\ FullWalkMismatch
    /\ spc = "thrown"
    /\ pagesScraped >= 2
    /\ Len(items) >= 1
    /\ \E i \in DOMAIN items : items[i].priceSource \in {"detail-meta", "detail-error"}

(***************************************************************************)
(* C5: the merge of a later page is first-write-wins: a record stored for  *)
(* an id is left unchanged, field by field, when a later page brings a     *)
(* record with the same id.                                                *)
(***************************************************************************)
C5_FirstWriteWins ==
    [][(spc = "pageDone" /\ p >= 2) =>
         \A i \in DOMAIN all :
            /\ MapHas(all', all[i].id)
            /\ MapGet(all', all[i].id) = all[i]]_vars

(***************************************************************************)
(* C8: in every record, price is null exactly when priceSource is one of   *)
(* missing, on-request, detail-timeout, detail-error, and price is a       *)
(* positive integer exactly when priceSource is one of card-meta,          *)
(* card-dom, detail-meta, detail-jsonld.                                   *)
(***************************************************************************)
NullSources == {"missing", "on-request", "detail-timeout", "detail-error"}
PricedSources == {"card-meta", "card-dom", "detail-meta", "detail-jsonld"}

\* Number.isInteger(v) && v > 0
isPositiveInteger(v) == v # NoNum /\ v # Infinity /\ v > 0

PriceMatchesSource(it) ==
    /\ (it.price = NoNum) <=> (it.priceSource \in NullSources)
    /\ isPositiveInteger(it.price) <=> (it.priceSource \in PricedSources)

C8_PriceMatchesSource ==
    /\ \A i \in DOMAIN pitems : PriceMatchesSource(pitems[i])
    /\ \A i \in DOMAIN all : PriceMatchesSource(all[i])
    /\ \A i \in DOMAIN items : PriceMatchesSource(items[i])
    /\ result # None =>
         \A i \in DOMAIN result[1].items : PriceMatchesSource(result[1].items[i])

(***************************************************************************)
(* C9: enrichFromDetail makes at most two attempts for a record: the       *)
(* second one starts only out of the backoff, the backoff is entered only  *)
(* from a first attempt that failed with a timeout, nothing is attempted   *)
(* after the second attempt ended, and a record whose two attempts timed   *)
(* out ends with priceSource detail-timeout and price null.                *)
(***************************************************************************)
Moved(t) == epc'[t] # epc[t]

C9_AtMostTwoAttempts ==
    [][\A t \in DOMAIN epc :
         /\ (Moved(t) /\ epc'[t] = "attempt1") => epc[t] = "idle"
         /\ (Moved(t) /\ epc'[t] = "attempt2") => epc[t] = "backoff"
         /\ (Moved(t) /\ epc'[t] = "backoff") =>
                (epc[t] = "threw1" /\ rej[t] = "timeout")
         /\ (Moved(t) /\ epc[t] = "attempt2") => epc'[t] \in {"threw2", "pause"}
         /\ (Moved(t) /\ epc[t] = "threw2") => epc'[t] = "pause"
         /\ (Moved(t) /\ epc[t] = "threw2" /\ rej[t] = "timeout") =>
                /\ items'[missingPrices[t]].priceSource = "detail-timeout"
                /\ items'[missingPrices[t]].price = NoNum
         /\ (Moved(t) /\ epc[t] = "pause") => epc'[t] = "done"
         /\ epc[t] = "done" => epc'[t] = "done"]_vars

\* a record whose two attempts both timed out is in the returned result
C9_Witness ==
    /\ spc = "returned"
    /\ \E t \in DOMAIN epc :
         /\ epc[t] = "done"
         /\ items[missingPrices[t]].priceSource = "detail-timeout"
         /\ items[missingPrices[t]].price = NoNum

(***************************************************************************)
(* C10: when the first attempt fails with an error that is not a timeout,  *)
(* the record is tagged detail-error with price null, enrichFromDetail     *)
(* returns (the task goes on to its pause) and no second attempt is made.  *)
(***************************************************************************)
C10_ErrorNotRetried ==
    [][\A t \in DOMAIN epc :
         /\ (Moved(t) /\ epc[t] = "threw1" /\ rej[t] = "other") =>
                /\ epc'[t] = "pause"
                /\ items'[missingPrices[t]].priceSource = "detail-error"
                /\ items'[missingPrices[t]].price = NoNum
         /\ (epc[t] \in {"pause", "done"}
               /\ items[missingPrices[t]].priceSource = "detail-error") =>
                /\ epc'[t] \in {"pause", "done"}
                /\ items'[missingPrices[t]] = items[missingPrices[t]]]_vars

\* a record tagged detail-error is in the returned result, beside an enriched one
C10_Witness ==
    /\ spc = "returned"
    /\ \E t \in DOMAIN epc : items[missingPrices[t]].priceSource = "detail-error"
    /\ \E t \in DOMAIN epc : items[missingPrices[t]].priceSource = "detail-meta"


(***************************************************************************)
(* C12: a detail fetch is dispatched for a record exactly when its         *)
(* priceSource is missing at the end of the walk, and once: a record that  *)
(* was not dispatched keeps a card source (card-meta, card-dom,            *)
(* on-request), a dispatched record whose attempt has not returned is      *)
(* missing, no position is dispatched twice, no function is started twice. *)
(***************************************************************************)
Dispatched(i) == \E t \in DOMAIN missingPrices : missingPrices[t] = i

C12_DispatchOnlyMissing ==
    lpc = "scrape" =>
        /\ \A i \in DOMAIN items :
             ~Dispatched(i) => items[i].priceSource \in {"card-meta", "card-dom", "on-request"}
        /\ \A t \in DOMAIN missingPrices :
             /\ missingPrices[t] \in DOMAIN items
             /\ epc[t] \in {"idle", "attempt1", "threw1", "backoff"} =>
                    items[missingPrices[t]].priceSource = "missing"
             /\ starts[t] <= 1
             /\ epc[t] # "idle" => starts[t] = 1
        /\ \A t, u \in DOMAIN missingPrices : missingPrices[t] = missingPrices[u] => t = u
        /\ DOMAIN epc = DOMAIN missingPrices

\* one record of the page is dispatched while its on-request neighbour is not
C12_Witness ==
    /\ spc = "awaitAll"
    /\ Len(items) = 2
    /\ Len(missingPrices) = 1
    /\ \E i \in DOMAIN items : ~Dispatched(i) /\ items[i].priceSource = "on-request"
    /\ epc[1] = "attempt1"

(***************************************************************************)
(* C13: the enrichment pass leaves the membership and the order of the     *)
(* collection unchanged; id, url, title, country and isSponsored of every  *)
(* record are unchanged, and a record that was not dispatched is not       *)
(* changed at all; the returned items are these records.                   *)
(***************************************************************************)
SameIdentity(a, b) ==
    /\ a.id = b.id /\ a.url = b.url /\ a.title = b.title
    /\ a.country = b.country /\ a.isSponsored = b.isSponsored

C13_EnrichmentKeepsRecords ==
    [][spc = "awaitAll" =>
         /\ Len(items') = Len(items)
         /\ \A i \in DOMAIN items :
              /\ SameIdentity(items'[i], items[i])
              /\ ~Dispatched(i) => items'[i] = items[i]
         /\ result' # None => result'[1].items = items]_vars

\* every detail fetch failed, and both records are returned beside each other
C13_Witness ==
    /\ spc = "returned"
    /\ Len(items) = 2
    /\ Len(missingPrices) = 2
    /\ \A i \in DOMAIN items : items[i].priceSource \in {"detail-timeout", "detail-error"}
    /\ result[1].items = items

LongTitle == [text |-> "Daytona", len |-> 7]
ShortTitle == [text |-> "GMT", len |-> 3]

ListHrefs ==
    {[digits |-> d, htm |-> TRUE, q |-> 0] : d \in 1..MaxId}
    \cup {[digits |-> 1, htm |-> TRUE, q |-> 1]}

\* the anchors a list page can hold: every listing link inside <main> under both
\* titles, two listing links outside <main>, a link without an id, a link without .htm
ListAnchors ==
    {[href |-> h, inMain |-> TRUE, title |-> t] : h \in ListHrefs, t \in {LongTitle, ShortTitle}}
    \cup {[href |-> [digits |-> 1, htm |-> TRUE, q |-> 0], inMain |-> FALSE, title |-> ShortTitle],
          [href |-> [digits |-> MaxId, htm |-> TRUE, q |-> 0], inMain |-> FALSE, title |-> LongTitle],
          [href |-> [digits |-> 0, htm |-> TRUE, q |-> 0], inMain |-> TRUE, title |-> LongTitle],
          [href |-> [digits |-> 1, htm |-> FALSE, q |-> 0], inMain |-> TRUE, title |-> LongTitle]}

\* the filter inside page.$$eval (line 243)
evalLinks(as) == SelectSeq(as, LAMBDA x : x.href.htm)

\* lines 246-249: with the page-wide selector, prefer the links inside <main>
preferMain(selectorUsed, links) ==
    IF selectorUsed = "anySel" /\ (\E i \in DOMAIN links : links[i].inMain)
    THEN SelectSeq(links, LAMBDA x : x.inMain)
    ELSE links

\* line 258: { id, url: fullUrl, title: t && t.length > 3 ? t : `Listing ${id}` }
listItem(id, l) ==
    [id |-> id, url |-> l.href,
     title |-> IF l.title.len > 3 THEN <<l.title.text>> ELSE Placeholder(id)]

MapHasUrl(m, u) == \E i \in DOMAIN m : m[i].url = u

RECURSIVE listByUrl(_, _)
listByUrl(acc, links) ==
    IF links = <<>> THEN acc
    ELSE LET id == extractListingId(Head(links).href) IN
         IF id = NoNum \/ MapHasUrl(acc, Head(links).href)
         THEN listByUrl(acc, Tail(links))
         ELSE listByUrl(Append(acc, listItem(id, Head(links))), Tail(links))

\* lines 251-259: the dedup loop; the first link of an id supplies the record
RECURSIVE listById(_, _)
listById(acc, links) ==
    IF links = <<>> THEN acc
    ELSE LET id == extractListingId(Head(links).href) IN
         IF id = NoNum \/ MapHas(acc, id)
         THEN listById(acc, Tail(links))
         ELSE listById(Append(acc, listItem(id, Head(links))), Tail(links))

flooredTotalPages(ec, ps) == IF IsPositiveNumber(ec) THEN ec \div ps ELSE 1

\* lines 272-273: computedTotalPages
computedTotalPages(ec, ps) == IF IsPositiveNumber(ec) THEN CeilDiv(ec, ps) ELSE 1

\* Map.prototype.size: the number of keys
MapSize(m) == Cardinality({m[i].id : i \in DOMAIN m})

NoWarning == <<>>

\* lines 288-299: the object scrapeList returns (scrapedAt left out)
ListReturn(a, ec, scraped) ==
    LET total == computedTotalPages(ec, pageSize) IN
    /\ result' = Some([expectedCount |-> ec,
                       count |-> MapSize(a),
                       pageSize |-> pageSize,
                       pagesScraped |-> scraped,
                       totalPages |-> total,
                       maxPages |-> maxPages,
                       partial |-> (scraped # total),
                       warning |-> IF scraped # total
                                   THEN <<"Partial", scraped, total>> ELSE NoWarning,
                       items |-> a])
    /\ spc' = "returned"

ListInit ==
    /\ JobIdle /\ BrowserIdle /\ CallIdle /\ WorkerIdle /\ ShareIdle
    /\ spc = "start"
    /\ pageSize \in 1..MaxPageSize
    /\ maxPages \in 1..MaxPages
    /\ expectedCount = NoNum /\ totalPages = 0 /\ all = <<>> /\ pagesScraped = 0
    /\ p = 0 /\ byId = <<>> /\ pitems = <<>> /\ pcount = NoNum /\ items = <<>>
    /\ missingPrices = <<>> /\ epc = <<>> /\ rej = <<>>
    /\ result = None /\ error = None /\ cache = None /\ filtered = <<>>
    /\ concurrency = 0
    /\ active = 0 /\ queue = <<>> /\ tstate = <<>> /\ outcome = <<>> /\ starts = <<>>
    /\ lpc = "list"

listIdle == <<byId, items, missingPrices, epc, rej, cache, limiterVars>>

\* line 268-269: page 1 is requested
ListStart ==
    /\ spc = "start"
    /\ spc' = "fetch"
    /\ p' = 1
    /\ UNCHANGED <<serviceVars, pageSize, maxPages, expectedCount, totalPages, all, pagesScraped,
                   pitems, pcount, filtered, result, error, listIdle>>

\* scrapeListPage rejects: getBrowser, createPage or goto failed, or neither selector
\* attached (the second waitForSelector is not caught); scrapeList rejects with it
ListPageThrow ==
    /\ spc = "fetch"
    /\ spc' = "thrown"
    /\ error' = Some([kind |-> "fetch", meta |-> None])
    /\ UNCHANGED <<serviceVars, pageSize, maxPages, expectedCount, totalPages, all, pagesScraped, p,
                   pitems, pcount, filtered, result, listIdle>>

\* scrapeListPage returns { expectedCount, items: [...byId.values()] }
ListPage ==
    /\ spc = "fetch"
    /\ \E selectorUsed \in {"mainSel", "anySel"},
          as \in SeqsUpTo(ListAnchors, MaxLinks),
          count \in (IF p = 1 THEN ExpectedCounts ELSE {NoNum}) :
         /\ as # <<>>
         /\ selectorUsed = "mainSel" => \A i \in DOMAIN as : as[i].inMain
         /\ filtered' = preferMain(selectorUsed, evalLinks(as))
         /\ pitems' = listById(<<>>, filtered')
         /\ pcount' = count
    /\ spc' = "pageDone"
    /\ UNCHANGED <<serviceVars, pageSize, maxPages, expectedCount, totalPages, all, pagesScraped, p,
                   result, error, listIdle>>

\* page 1 returned: lines 271-280, then the loop test; with a single page to scrape
\* the function returns in the same step
ListMergeFirst ==
    /\ spc = "pageDone" /\ p = 1
    /\ expectedCount' = pcount
    /\ totalPages' = computedTotalPages(pcount, pageSize)
    /\ all' = MapSetAll(<<>>, pitems)
    /\ pagesScraped' = 1
    /\ IF 2 <= Min(maxPages, totalPages')
       THEN /\ p' = 2
            /\ spc' = "fetch"
            /\ UNCHANGED result
       ELSE /\ p' = 0
            /\ ListReturn(all', pcount, 1)
    /\ pitems' = <<>> /\ pcount' = NoNum /\ filtered' = <<>>
    /\ UNCHANGED <<serviceVars, pageSize, maxPages, error, listIdle>>

\* page p >= 2 returned: lines 283-284
ListMergePage ==
    /\ spc = "pageDone" /\ p >= 2
    /\ all' = MapSetAll(all, pitems)
    /\ pagesScraped' = p
    /\ spc' = "sleep"
    /\ pitems' = <<>> /\ pcount' = NoNum /\ filtered' = <<>>
    /\ UNCHANGED <<serviceVars, pageSize, maxPages, expectedCount, totalPages, p, result, error,
                   listIdle>>

\* the inter-page sleep ends: p++ and the loop test against totalPagesToScrape
ListAfterSleep ==
    /\ spc = "sleep"
    /\ IF p + 1 <= Min(maxPages, totalPages)
       THEN /\ p' = p + 1
            /\ spc' = "fetch"
            /\ UNCHANGED result
       ELSE /\ p' = 0
            /\ ListReturn(all, expectedCount, pagesScraped)
    /\ UNCHANGED <<serviceVars, pageSize, maxPages, expectedCount, totalPages, all, pagesScraped,
                   pitems, pcount, filtered, error, listIdle>>

ListNext ==
    \/ ListStart
    \/ ListPageThrow
    \/ ListPage
    \/ ListMergeFirst
    \/ ListMergePage
    \/ ListAfterSleep

ListSpec == ListInit /\ [][ListNext]_vars

(***************************************************************************)
(* C6: the output of the list scanner holds exactly one record per listing *)
(* id of the links it ran over, the record built from the first link with  *)
(* that id; the walker's items hold one record per id and count equals     *)
(* items.length.                                                           *)
(***************************************************************************)
UniqueIds(m) == \A i, j \in DOMAIN m : m[i].id = m[j].id => i = j

IdsOf(m) == {m[i].id : i \in DOMAIN m}

FirstLinkOf(id) ==
    CHOOSE j \in DOMAIN filtered :
        /\ extractListingId(filtered[j].href) = id
        /\ \A k \in 1..(j - 1) : extractListingId(filtered[k].href) # id

C6_OneRecordPerId ==
    /\ spc = "pageDone" =>
         /\ UniqueIds(pitems)
         /\ IdsOf(pitems) =
              {extractListingId(filtered[j].href) : j \in DOMAIN filtered} \ {NoNum}
         /\ \A i \in DOMAIN pitems :
              pitems[i] = listItem(pitems[i].id, filtered[FirstLinkOf(pitems[i].id)])
    /\ UniqueIds(all)
    /\ result # None =>
         /\ UniqueIds(result[1].items)
         /\ result[1].count = Len(result[1].items)

\* page 2 repeats, under two query strings, a listing that page 1 already gave
C6_Witness ==
    /\ spc = "pageDone" /\ p = 2
    /\ \E j, k \in DOMAIN filtered :
         /\ j < k
         /\ filtered[j].href.digits = filtered[k].href.digits
         /\ filtered[j].href.q # filtered[k].href.q
         /\ extractListingId(filtered[j].href) # NoNum
         /\ MapHas(all, extractListingId(filtered[j].href))
         /\ Len(pitems) < Len(filtered)

(***************************************************************************)
(* C7: every result of scrapeList has totalPages = ceil(expectedCount /    *)
(* pageSize) when expectedCount is a positive number and 1 otherwise,      *)
(* partial = (pagesScraped # totalPages), and a warning exactly when       *)
(* partial.                                                                *)
(***************************************************************************)
C7_PartialFlag ==
    result # None =>
        LET r == result[1] IN
        /\ r.expectedCount = expectedCount
        /\ r.pageSize = pageSize
        /\ r.pagesScraped = pagesScraped
        /\ r.totalPages = IF r.expectedCount # NoNum /\ r.expectedCount > 0
                          THEN (r.expectedCount + r.pageSize - 1) \div r.pageSize
                          ELSE 1
        /\ r.partial = (r.pagesScraped # r.totalPages)
        /\ (r.warning # NoWarning) = r.partial

\* a result cut short by maxPages, and so flagged partial
C7_Witness ==
    /\ result # None
    /\ result[1].partial
    /\ result[1].warning # NoWarning
    /\ result[1].pagesScraped < result[1].totalPages
    /\ result[1].count >= 1

(***************************************************************************)
(* -------  server.js, second revision: the enrichment of scrapeChrono24   *)
(* (lines 1064-1124) with its enrichFromDetail (lines 943-1012)  --------- *)
(***************************************************************************)
\* CONFIG.detailConcurrency of the second revision
detailConcurrency2 == 4

\* enrichFromDetail of the second revision once the page has loaded; it has no catch
enrichFromDetail2(item, doc) ==
    IF doc.meta # NoNum /\ Number(doc.meta) > 0
    THEN [item EXCEPT !.price = Number(doc.meta), !.priceSource = "detail-meta"]
    ELSE IF jsonldPrice(doc.jsonld) # NoNum
    THEN [item EXCEPT !.price = jsonldPrice(doc.jsonld), !.priceSource = "detail-jsonld"]
    ELSE IF doc.onReq
    THEN [item EXCEPT !.price = NoNum, !.priceSource = "on-request"]
    ELSE [item EXCEPT !.priceSource = "missing"]

\* what a walk of one page leaves in items: records of distinct ids
WalkOutputs ==
    {its \in SeqsUpTo({cardItem([id |-> d, url |-> [digits |-> d, htm |-> TRUE, q |-> 0]], c) :
                          d \in 1..MaxId, c \in Cards}, MaxId) :
        \A i, j \in DOMAIN its : its[i].id = its[j].id => i = j}

\* the state at line 1094: a walk of a single page has ended
Scrape2Init ==
    /\ JobIdle /\ BrowserIdle /\ CallIdle /\ WorkerIdle /\ ShareIdle
    /\ spc = "walked"
    /\ pageSize \in 1..MaxPageSize
    /\ maxPages = 0 /\ totalPages = 0 /\ p = 0
    /\ expectedCount \in ExpectedCounts
    /\ all = <<>> /\ pagesScraped = 1
    /\ byId = <<>> /\ pitems = <<>> /\ pcount = NoNum
    /\ items \in WalkOutputs
    /\ missingPrices = <<>> /\ epc = <<>> /\ rej = <<>>
    /\ result = None /\ error = None /\ cache = None /\ filtered = <<>>
    /\ concurrency = detailConcurrency2
    /\ active = 0 /\ queue = <<>> /\ tstate = <<>> /\ outcome = <<>> /\ starts = <<>>
    /\ lpc = "scrape2"

walk2Vars == <<serviceVars, pageSize, maxPages, expectedCount, totalPages, all, pagesScraped, p,
               byId, pitems, pcount, filtered, missingPrices, concurrency, lpc>>

\* lines 1097-1105: every record is submitted to the limiter
Dispatch2 ==
    /\ spc = "walked"
    /\ LET n == Len(items)
           L == submitAll(concurrency, CurL, [t \in 1..n |-> t])
       IN  IF n > 0
           THEN /\ active' = L.active
                /\ queue' = L.queue
                /\ tstate' = [t \in 1..n |->
                                IF t \in Range(L.started) THEN "running" ELSE "queued"]
                /\ starts' = [t \in 1..n |-> IF t \in Range(L.started) THEN 1 ELSE 0]
                /\ outcome' = [t \in 1..n |-> "none"]
                /\ epc' = [t \in 1..n |-> IF t \in Range(L.started) THEN "run" ELSE "idle"]
                /\ rej' = [t \in 1..n |-> "none"]
                /\ spc' = "awaitAll"
                /\ UNCHANGED <<result, error, cache>>
           ELSE /\ Finish(items, expectedCount, pagesScraped)
                /\ UNCHANGED <<active, queue, tstate, starts, outcome, epc, rej>>
    /\ UNCHANGED <<walk2Vars, items>>

\* fn settles with oc; .then(resolve, reject) and the finally callback of the limiter
Settle2(t, oc) ==
    /\ LET L == finallyStep(concurrency, CurL) IN
         /\ ApplyL(L, [tstate EXCEPT ![t] = "released"])
         /\ epc' = [u \in DOMAIN epc |->
                      IF u = t THEN "done"
                      ELSE IF u \in Range(L.started) THEN "run" ELSE epc[u]]
    /\ outcome' = [outcome EXCEPT ![t] = oc]

Running2(t) == lpc = "scrape2" /\ t \in DOMAIN epc /\ epc[t] = "run"

\* if (it.priceSource === "missing") is false: fn fulfils at once
Task2Skip(t) ==
    /\ Running2(t)
    /\ ~needsDetail(items[t])
    /\ Settle2(t, "fulfilled")
    /\ UNCHANGED <<walk2Vars, items, rej, spc, result, error, cache>>

\* enrichFromDetail returns the record
Task2Return(t) ==
    /\ Running2(t)
    /\ needsDetail(items[t])
    /\ \E doc \in DetailDocs : items' = [items EXCEPT ![t] = enrichFromDetail2(@, doc)]
    /\ Settle2(t, "fulfilled")
    /\ UNCHANGED <<walk2Vars, rej, spc, result, error, cache>>

\* createPage, goto or a page call rejects: try/finally lets it through, fn rejects
Task2Throw(t) ==
    /\ Running2(t)
    /\ needsDetail(items[t])
    /\ \E kind \in {"timeout", "other"} : rej' = [rej EXCEPT ![t] = kind]
    /\ Settle2(t, "rejected")
    /\ UNCHANGED <<walk2Vars, items, spc, result, error, cache>>

\* await Promise.all(...) rejects with the first rejection: scrapeChrono24 rejects
Await2Rejected ==
    /\ lpc = "scrape2" /\ spc = "awaitAll"
    /\ \E t \in DOMAIN outcome : outcome[t] = "rejected"
    /\ spc' = "thrown"
    /\ error' = Some([kind |-> "detail", meta |-> None])
    /\ UNCHANGED <<walk2Vars, items, epc, rej, result, cache, poolVars>>

\* await Promise.all(...) resumes: lines 1107-1123
Await2Resumed ==
    /\ lpc = "scrape2" /\ spc = "awaitAll"
    /\ \A t \in DOMAIN outcome : outcome[t] = "fulfilled"
    /\ Finish(items, expectedCount, pagesScraped)
    /\ UNCHANGED <<walk2Vars, items, epc, rej, poolVars>>

Scrape2Next ==
    \/ Dispatch2
    \/ \E t \in 1..MaxId : Task2Skip(t)
    \/ \E t \in 1..MaxId : Task2Return(t)
    \/ \E t \in 1..MaxId : Task2Throw(t)
    \/ Await2Rejected
    \/ Await2Resumed

Scrape2Spec == Scrape2Init /\ [][Scrape2Next]_vars

(***************************************************************************)
(* C11: in the second revision a detail fetch that fails for one record    *)
(* never makes scrapeChrono24 reject: the failure is written to the        *)
(* record's priceSource and the result is returned.                        *)
(***************************************************************************)
C11_DetailFailureIsolated ==
    /\ ~(error # None /\ error[1].kind = "detail")
    /\ \A t \in DOMAIN outcome :
         outcome[t] = "rejected" => items[t].priceSource \in {"detail-timeout", "detail-error"}



(***************************************************************************)
(* ---------------  part_002: POST /api/scrape with withPrices ----------- *)
(* The handler after scrapeList has returned listOut (part_002 469), the   *)
(* background worker it starts (491-547), and the two job queries          *)
(* (565-616).  The store is the Redis entry under jobId.                   *)
(***************************************************************************)
MaxListings == 4

\* CONFIG.priceConcurrency
priceConcurrency == 3

\* listOut.items for n listings
ListOuts ==
    {[k \in 1..n |-> [id |-> k, title |-> Placeholder(k)]] : n \in 0..MaxListings}

\* what scrapePriceForListing resolves to (part_002 383, 402, 422, 424, 427)
PriceOutcomes ==
    {[price |-> 100, priceSource |-> "jsonld"],
     [price |-> NoNum, priceSource |-> "none"],
     [price |-> NoNum, priceSource |-> "error"]}

\* the object handed to JSON.stringify in the four redis.set calls; a field the
\* object literal does not have is NoNum / <<>> / ""
jobRecord(status, total, processed, res, msg) ==
    [status |-> status, total |-> total, processed |-> processed,
     results |-> res, error |-> msg]

pendingRecordEager(n) ==
    jobRecord(IF n = 0 THEN "completed" ELSE "pending", n, 0, <<>>, "")

pendingRecord(n) == jobRecord("pending", n, 0, <<>>, "")

activeRecord(n, res) == jobRecord("active", n, Len(res), <<>>, "")

completedRecord(n, res) == jobRecord("completed", n, n, res, "")

failedRecord(msg) == jobRecord("failed", NoNum, NoNum, <<>>, msg)

batchOfInclusive(its, i) ==
    SubSeq(its, i + 1, Min(i + priceConcurrency + 1, Len(its)))

\* listOut.items.slice(i, i + CONCURRENCY)
batchOf(its, i) == SubSeq(its, i + 1, Min(i + priceConcurrency, Len(its)))

\* { ...listing, price, priceSource }
priced(listing, o) ==
    [id |-> listing.id, title |-> listing.title,
     price |-> o.price, priceSource |-> o.priceSource]

\* what the handler sends
Reply(code, withJob) == [code |-> code, jobId |-> withJob, count |-> Len(listOut)]

\* every variable of the other operations
jobFrame == <<limiterVars, spc, pageSize, maxPages, expectedCount, totalPages, all,
              pagesScraped, p, byId, pitems, pcount, items, missingPrices, epc, rej,
              result, error, filtered, browserVars, callVars, workerVars, shareVars>>

\* the handler is inside its synchronous run from the start of the worker to
\* res.json: no other callback of the event loop runs meanwhile
Busy == rpc = "respond"

\* the handler is about to await redis.set(jobId, pending) (part_002 479)
JobInit ==
    /\ ScrapeIdle /\ BrowserIdle /\ CallIdle /\ WorkerIdle /\ ShareIdle
    /\ concurrency = 0 /\ active = 0 /\ queue = <<>> /\ tstate = <<>>
    /\ outcome = <<>> /\ starts = <<>> /\ lpc = "job"
    /\ listOut \in ListOuts
    /\ store = <<>> /\ rpc = "setPending" /\ response = <<>>
    /\ jpc = "idle" /\ batchStart = 0 /\ results = <<>> /\ err = "" /\ writes = <<>>
    /\ query = [pc |-> "idle", kind |-> "", id |-> "", read |-> "", reply |-> <<>>]

\* await redis.set(jobId, {status: "pending", ...}) succeeded
PendingWritten ==
    /\ rpc = "setPending"
    /\ store' = Some(pendingRecord(Len(listOut)))
    /\ writes' = Append(writes, pendingRecord(Len(listOut)))
    /\ rpc' = "job"
    /\ UNCHANGED <<listOut, response, jpc, batchStart, results, err, query, cache, jobFrame>>

\* it rejected: the handler's catch answers 500 and no worker is started
PendingWriteFails ==
    /\ rpc = "setPending"
    /\ response' = Some(Reply(500, FALSE))
    /\ rpc' = "sent"
    /\ UNCHANGED <<listOut, store, jpc, batchStart, results, err, writes, query, cache,
                   jobFrame>>

\* (async () => { ... })(): the worker runs up to its first await
StartWorker ==
    /\ rpc = "job"
    /\ results' = <<>>
    /\ batchStart' = 0
    /\ jpc' = IF 0 < Len(listOut) THEN "batch" ELSE "setCompleted"
    /\ rpc' = "respond"
    /\ UNCHANGED <<listOut, store, response, err, writes, query, cache, jobFrame>>

\* cacheSet(key, response); return res.json(response)
Respond ==
    /\ rpc = "respond"
    /\ response' = Some(Reply(200, TRUE))
    /\ cache' = Some(Reply(200, TRUE))
    /\ rpc' = "sent"
    /\ UNCHANGED <<listOut, store, jpc, batchStart, results, err, writes, query, jobFrame>>

workerFrame == <<listOut, rpc, response, query, cache, jobFrame>>

\* const batchResults = await processBatch(batch); results.push(...batchResults)
BatchDone ==
    /\ ~Busy /\ jpc = "batch"
    /\ LET batch == batchOf(listOut, batchStart) IN
       \E os \in [DOMAIN batch -> PriceOutcomes] :
            results' = results \o [k \in DOMAIN batch |-> priced(batch[k], os[k])]
    /\ jpc' = "setActive"
    /\ UNCHANGED <<store, batchStart, err, writes, workerFrame>>

\* getBrowser or createPage rejected inside scrapePriceForListing (306-307)
BatchThrows ==
    /\ ~Busy /\ jpc = "batch"
    /\ err' = "launch"
    /\ jpc' = "catch"
    /\ UNCHANGED <<store, batchStart, results, writes, workerFrame>>

\* await redis.set(jobId, {status: "active", processed: results.length, ...})
ActiveWritten ==
    /\ ~Busy /\ jpc = "setActive"
    /\ store' = Some(activeRecord(Len(listOut), results))
    /\ writes' = Append(writes, activeRecord(Len(listOut), results))
    /\ jpc' = "sleep"
    /\ UNCHANGED <<batchStart, results, err, workerFrame>>

\* await sleep(randInt(100, 250)); i += CONCURRENCY; the loop test
SleepDone ==
    /\ ~Busy /\ jpc = "sleep"
    /\ batchStart' = batchStart + priceConcurrency
    /\ jpc' = IF batchStart + priceConcurrency < Len(listOut) THEN "batch" ELSE "setCompleted"
    /\ UNCHANGED <<store, results, err, writes, workerFrame>>

\* await redis.set(jobId, {status: "completed", ..., results})
CompletedWritten ==
    /\ ~Busy /\ jpc = "setCompleted"
    /\ store' = Some(completedRecord(Len(listOut), results))
    /\ writes' = Append(writes, completedRecord(Len(listOut), results))
    /\ jpc' = "done"
    /\ UNCHANGED <<batchStart, results, err, workerFrame>>

\* a progress or completion write rejected: the store is unavailable
WriteFails ==
    /\ ~Busy /\ jpc \in {"setActive", "setCompleted"}
    /\ err' = "store"
    /\ jpc' = "catch"
    /\ UNCHANGED <<store, batchStart, results, writes, workerFrame>>

\* .catch(async (err) => { await redis.set(jobId, {status: "failed", ...}) })
FailedWritten ==
    /\ ~Busy /\ jpc = "catch"
    /\ store' = Some(failedRecord(err))
    /\ writes' = Append(writes, failedRecord(err))
    /\ jpc' = "failed"
    /\ UNCHANGED <<batchStart, results, err, workerFrame>>

\* the redis.set of the catch handler rejected: nothing handles the promise
\* that .catch returned
FailedWriteFails ==
    /\ ~Busy /\ jpc = "catch"
    /\ jpc' = "unhandled"
    /\ UNCHANGED <<store, batchStart, results, err, writes, workerFrame>>

\* { ex: 3600 }: the entry expires an hour after the last write
Expire ==
    /\ ~Busy /\ jpc \in {"done", "failed", "unhandled"}
    /\ store # <<>>
    /\ store' = <<>>
    /\ UNCHANGED <<listOut, rpc, response, jpc, batchStart, results, err, writes, query,
                   cache, jobFrame>>

(***************************************************************************)
(* GET /api/jobs/:jobId/status and /results (part_002 565-616)             *)
(***************************************************************************)
\* what redis.get can resolve to: null for a missing key; for a present key the
\* deserialised object, the JSON text, or a text that is not JSON
Datum(kind, rec) == [kind |-> kind, value |-> rec]

GetOutcomes(id) ==
    IF id # "job" \/ store = <<>>
    THEN {Datum("null", <<>>)}
    ELSE {Datum("object", store), Datum("string", store), Datum("garbled", <<>>)}

\* safeJsonParse(value): null for null, the object itself, JSON.parse of a
\* string, null when JSON.parse throws
safeJsonParse(value) ==
    IF value.kind = "null" THEN None
    ELSE IF value.kind = "object" THEN value.value
    ELSE IF value.kind = "string" THEN value.value
    ELSE None

\* Math.round((processed / total) * 100)
RoundPercent(processed, total) == (200 * processed + total) \div (2 * total)

\* job.total > 0 ? Math.round(...) : 0
progressOf(job) == IF job.total > 0 THEN RoundPercent(job.processed, job.total) ELSE 0

QReply(code, msg, status, progress, processed, total, prices) ==
    [code |-> code, error |-> msg, status |-> status, progress |-> progress,
     processed |-> processed, total |-> total, prices |-> prices]

queryReplyNoNotFound(kind, data) ==
    LET job == safeJsonParse(data) IN
    IF job = None
    THEN QReply(500, "Invalid job data in Redis", "", NoNum, NoNum, NoNum, <<>>)
    ELSE QReply(200, "", job[1].status, progressOf(job[1]), job[1].processed,
                job[1].total, <<>>)

\* the body of both handlers after const data = await redis.get(jobId)
queryReply(kind, data) ==
    IF data.kind = "null"
    THEN QReply(404, "Job non trouve", "", NoNum, NoNum, NoNum, <<>>)
    ELSE LET job == safeJsonParse(data) IN
         IF job = None
         THEN QReply(500, "Invalid job data in Redis", "", NoNum, NoNum, NoNum, <<>>)
         ELSE IF kind = "status"
         THEN QReply(200, "", job[1].status, progressOf(job[1]), job[1].processed,
                     job[1].total, <<>>)
         ELSE IF job[1].status # "completed"
         THEN QReply(200, "", job[1].status, progressOf(job[1]), NoNum, NoNum, <<>>)
         ELSE QReply(200, "", "completed", NoNum, NoNum, NoNum, job[1].results)

queryFrame == <<listOut, store, rpc, response, jpc, batchStart, results, err, writes,
                cache, jobFrame>>

\* a request arrives: const data = await redis.get(jobId)
QueryStart(kind, id) ==
    /\ ~Busy /\ query.pc \in {"idle", "replied"}
    /\ query' = [pc |-> "get", kind |-> kind, id |-> id, read |-> "", reply |-> <<>>]
    /\ UNCHANGED queryFrame

\* redis.get resolved
QueryGot ==
    /\ ~Busy /\ query.pc = "get"
    /\ \E data \in GetOutcomes(query.id) :
         query' = [query EXCEPT !.pc = "replied", !.read = data.kind,
                                !.reply = Some(queryReply(query.kind, data))]
    /\ UNCHANGED queryFrame

\* redis.get rejected: catch (e) { res.status(500).json(...) }
QueryGetFails ==
    /\ ~Busy /\ query.pc = "get"
    /\ query' = [query EXCEPT !.pc = "replied", !.read = "threw",
                              !.reply = Some(QReply(500, "store", "", NoNum, NoNum,
                                                    NoNum, <<>>))]
    /\ UNCHANGED queryFrame

JobNext ==
    \/ PendingWritten \/ PendingWriteFails \/ StartWorker \/ Respond
    \/ BatchDone \/ BatchThrows \/ ActiveWritten \/ SleepDone \/ CompletedWritten
    \/ WriteFails \/ FailedWritten \/ FailedWriteFails \/ Expire
    \/ \E kind \in {"status", "results"}, id \in {"job", "other"} : QueryStart(kind, id)
    \/ QueryGot \/ QueryGetFails

JobSpec == JobInit /\ [][JobNext]_vars

(***************************************************************************)
(* C15: the response carrying the job id is sent before the worker's       *)
(* terminal record is written, for every number of listings including      *)
(* zero, and the pending record is in the store when the response is sent. *)
(***************************************************************************)
TerminalStatus == {"completed", "failed"}

Counted(k) == writes[k].status # "failed"

ActiveWrites == {k \in DOMAIN writes : writes[k].status = "active"}

C16_ProgressMonotone ==
    lpc = "job" =>
        /\ \A k \in DOMAIN writes : Counted(k) =>
             /\ writes[k].total = Len(listOut)
             /\ writes[k].processed \in 0..writes[k].total
        /\ \A k, l \in DOMAIN writes :
             (k < l /\ Counted(k) /\ Counted(l)) => writes[k].processed <= writes[l].processed
        /\ jpc = "sleep" =>
             /\ writes[Len(writes)] = activeRecord(Len(listOut), results)
             /\ Len(results) = Min(batchStart + priceConcurrency, Len(listOut))
             /\ Cardinality(ActiveWrites) = (batchStart \div priceConcurrency) + 1
        /\ jpc \in {"batch", "setActive"} =>
             Cardinality(ActiveWrites) = batchStart \div priceConcurrency
        /\ \A k \in DOMAIN writes : writes[k].status = "completed" =>
             /\ writes[k].processed = writes[k].total
             /\ Len(writes[k].results) = Len(listOut)
             /\ \A j \in DOMAIN listOut :
                  /\ writes[k].results[j].id = listOut[j].id
                  /\ writes[k].results[j].title = listOut[j].title
                  /\ [price |-> writes[k].results[j].price,
                      priceSource |-> writes[k].results[j].priceSource] \in PriceOutcomes

\* four listings: two batches, two progress records, then the completed record
C16_Witness ==
    /\ jpc = "done"
    /\ Len(listOut) = priceConcurrency + 1
    /\ Len(writes) = 4
    /\ writes[2].processed = priceConcurrency
    /\ writes[4].status = "completed"

(***************************************************************************)
(* C17: every exception that escapes the worker ends with a failed record  *)
(* carrying the message, and none becomes an unhandled rejection.          *)
(***************************************************************************)
C17_JobFailureRecorded ==
    /\ jpc # "unhandled"
    /\ jpc = "failed" => writes[Len(writes)] = failedRecord(err)

(***************************************************************************)
(* C18: a query for an unknown or expired job id answers 404; a read that  *)
(* fails or returns unparsable data answers with an error; every query is  *)
(* answered by the handler itself.                                         *)
(***************************************************************************)
C18_QueryOutcomes ==
    (lpc = "job" /\ query.pc = "replied") =>
        /\ query.reply # <<>>
        /\ query.read = "null" <=> query.reply[1].code = 404
        /\ query.read \in {"garbled", "threw"} =>
             (query.reply[1].code = 500 /\ query.reply[1].error # "")
        /\ query.id = "other" => query.reply[1].code \in {404, 500}
        /\ query.read \in {"object", "string"} =>
             (query.reply[1].code = 200 /\ query.reply[1].status \in
                 {"pending", "active", "completed", "failed"})

\* the job has completed and its record has expired: the query answers 404
C18_Witness ==
    /\ query.pc = "replied" /\ query.id = "job" /\ query.kind = "results"
    /\ jpc = "done" /\ store = <<>>
    /\ query.read = "null" /\ query.reply[1].code = 404

(***************************************************************************)
(* ---------------  getBrowser (part_002 100-121), forceNew = false ------ *)
(* Callers are requests of the same process; each call runs to its await   *)
(* of chromium.launch, and resumes when the launch settles.                *)
(***************************************************************************)
MaxCallers == 3

Callers == 1..MaxCallers

browserFrame == <<limiterVars, scrapeVars, jobVars, callVars, workerVars, shareVars>>

BrowserInit ==
    /\ ScrapeIdle /\ JobIdle /\ CallIdle /\ WorkerIdle /\ ShareIdle
    /\ concurrency = 0 /\ active = 0 /\ queue = <<>> /\ tstate = <<>>
    /\ outcome = <<>> /\ starts = <<>> /\ lpc = "browser"
    /\ browserInstance = 0
    /\ gpc = [c \in Callers |-> "idle"]
    /\ got = [c \in Callers |-> 0]
    /\ launched = {}

\* getBrowser(false) up to its first await: if (!browserInstance) launch,
\* else return browserInstance
GetBrowserCall(c) ==
    /\ gpc[c] \in {"idle", "returned", "threw"}
    /\ IF browserInstance # 0
       THEN /\ gpc' = [gpc EXCEPT ![c] = "returned"]
            /\ got' = [got EXCEPT ![c] = browserInstance]
       ELSE /\ gpc' = [gpc EXCEPT ![c] = "launching"]
            /\ got' = [got EXCEPT ![c] = 0]
    /\ UNCHANGED <<browserInstance, launched, browserFrame>>

\* browserInstance = await chromium.launch(opts); return browserInstance
LaunchResolved(c) ==
    /\ gpc[c] = "launching"
    /\ LET b == Cardinality(launched) + 1 IN
         /\ launched' = launched \cup {b}
         /\ browserInstance' = b
         /\ got' = [got EXCEPT ![c] = b]
    /\ gpc' = [gpc EXCEPT ![c] = "returned"]
    /\ UNCHANGED browserFrame

\* chromium.launch rejected: getBrowser rejects, browserInstance stays as it is
LaunchRejected(c) ==
    /\ gpc[c] = "launching"
    /\ gpc' = [gpc EXCEPT ![c] = "threw"]
    /\ UNCHANGED <<browserInstance, got, launched, browserFrame>>

BrowserNext ==
    \E c \in Callers : GetBrowserCall(c) \/ LaunchResolved(c) \/ LaunchRejected(c)

BrowserSpec == BrowserInit /\ [][BrowserNext]_vars

(***************************************************************************)
(* C19: under any interleaving of calls without forceNew the browser is    *)
(* launched at most once, every caller receives that instance, and no      *)
(* launched instance is left unreferenced by browserInstance.              *)
(***************************************************************************)
C19_SingleBrowser ==
    /\ Cardinality(launched) <= 1
    /\ \A c \in DOMAIN gpc : gpc[c] = "returned" => got[c] = browserInstance
    /\ \A b \in launched : b = browserInstance

(***************************************************************************)
(* C20: on an unchanging source the maxPages=2 run of scrapeList returns   *)
(* every id the maxPages=1 run returns, and no record of the maxPages=1    *)
(* run (the map after page 1) has a less informative field after page 2 is *)
(* merged: a real title is never replaced by the placeholder.              *)
(***************************************************************************)
HasRealTitle(it) == it.title # Placeholder(it.id)

C20_MergeMonotone ==
    [][(lpc = "list" /\ spc = "pageDone" /\ p = 2) =>
          \A i \in DOMAIN all : \E j \in DOMAIN all' :
              /\ all'[j].id = all[i].id
              /\ HasRealTitle(all[i]) => HasRealTitle(all'[j])]_vars

MaxNow == 4

\* CONFIG.cacheTTLms, in units of the model's clock
cacheTTLms == 2

\* a NaN number
NaN == 0 - 1000

\* opts.pageSize and opts.maxPages as the route passes them, by the number
\* Number() makes of them (0: absent or falsy; NaN: a string such as "abc";
\* Infinity: the string "Infinity")
PageSizeOpts == {0, 60, NaN, Infinity}
MaxPagesOpts == {0, 50}

\* Number(opts.pageSize || 120), Number(opts.maxPages || 50)
optOr(v, d) == IF v = 0 THEN d ELSE v

\* a number as JSON.stringify writes it: null for NaN and Infinity
jsonNumber(n) == IF n = NaN \/ n = Infinity THEN NoNum ELSE n

\* JSON.stringify({ url, pageSize, maxPages })
cacheKey(u, ps, mp) == <<"url", u, "pageSize", jsonNumber(ps), "maxPages", jsonNumber(mp)>>

CacheKeys == {cacheKey("u", optOr(ps, 120), optOr(mp, 50)) : ps \in PageSizeOpts, mp \in MaxPagesOpts}

\* what a successful walk can build for the call (line 602)
WalkResults ==
    {[expectedCount |-> n, count |-> n, pageSize |-> pageSize, pagesScraped |-> 1,
      fromCache |-> FALSE] : n \in 1..2}

\* Date.now() - e.ts > CONFIG.cacheTTLms
isExpired(e, t) == t - e.ts > cacheTTLms

getCachedEvicting(c, k, nc, t) ==
    IF c[k] = <<>> THEN [data |-> <<>>, cache |-> c]
    ELSE IF nc \/ isExpired(c[k][1], t) THEN [data |-> <<>>, cache |-> [c EXCEPT ![k] = <<>>]]
    ELSE [data |-> <<c[k][1].data>>, cache |-> c]

\* getCached(key, noCache): the data returned (<<>> for null) and the cache
\* afterwards (an expired entry is deleted)
getCached(c, k, nc, t) ==
    IF nc THEN [data |-> <<>>, cache |-> c]
    ELSE IF c[k] = <<>> THEN [data |-> <<>>, cache |-> c]
    ELSE IF isExpired(c[k][1], t) THEN [data |-> <<>>, cache |-> [c EXCEPT ![k] = <<>>]]
    ELSE [data |-> <<c[k][1].data>>, cache |-> c]

\* setCache(key, data)
setCache(c, k, data, t) == [c EXCEPT ![k] = <<[ts |-> t, data |-> data]>>]

cacheFrame == <<limiterVars, expectedCount, totalPages, all, pagesScraped, p, byId, pitems,
                pcount, items, missingPrices, epc, rej, filtered, jobVars, browserVars,
                workerVars, shareVars>>

CacheInit ==
    /\ JobIdle /\ BrowserIdle /\ WorkerIdle /\ ShareIdle
    /\ concurrency = 0 /\ active = 0 /\ queue = <<>> /\ tstate = <<>>
    /\ outcome = <<>> /\ starts = <<>> /\ lpc = "cache"
    /\ spc = "idle" /\ pageSize = 0 /\ maxPages = 0 /\ expectedCount = NoNum
    /\ totalPages = 0 /\ all = <<>> /\ pagesScraped = 0 /\ p = 0
    /\ byId = <<>> /\ pitems = <<>> /\ pcount = NoNum /\ items = <<>>
    /\ missingPrices = <<>> /\ epc = <<>> /\ rej = <<>> /\ filtered = <<>>
    /\ result = None /\ error = None
    /\ cache = [k \in CacheKeys |-> <<>>]
    /\ cache0 = cache
    /\ reqUrl = "" /\ noCache = FALSE /\ now = 0

\* the clock advances
Tick ==
    /\ now < MaxNow
    /\ now' = now + 1
    /\ UNCHANGED <<spc, pageSize, maxPages, result, error, cache, reqUrl, noCache, cache0,
                   cacheFrame>>

\* scrapeChrono24(url, opts) up to its first await: lines 552-558
CallScrape(ps, mp, nc) ==
    /\ spc \in {"idle", "returned", "thrown"}
    /\ reqUrl' = "u" /\ pageSize' = optOr(ps, 120) /\ maxPages' = optOr(mp, 50)
    /\ noCache' = nc
    /\ cache0' = cache
    /\ error' = None
    /\ LET g == getCached(cache, cacheKey(reqUrl', pageSize', maxPages'), nc, now) IN
         /\ cache' = g.cache
         /\ IF g.data # <<>>
            THEN /\ result' = Some([g.data[1] EXCEPT !.fromCache = TRUE])
                 /\ spc' = "returned"
            ELSE /\ result' = None
                 /\ spc' = "walking"
    /\ UNCHANGED <<now, cacheFrame>>

\* getBrowser or a scrapeOnePage call rejects (560-578), or the count check
\* throws (596-600): the call rejects
WalkThrows(kind) ==
    /\ spc = "walking"
    /\ error' = Some([kind |-> kind, meta |-> None])
    /\ spc' = "thrown"
    /\ UNCHANGED <<pageSize, maxPages, result, cache, reqUrl, noCache, now, cache0,
                   cacheFrame>>

\* lines 602-604: the result is built, cached and returned
WalkReturns ==
    /\ spc = "walking"
    /\ \E r \in WalkResults :
         /\ cache' = setCache(cache, cacheKey(reqUrl, pageSize, maxPages), r, now)
         /\ result' = Some(r)
    /\ spc' = "returned"
    /\ UNCHANGED <<pageSize, maxPages, error, reqUrl, noCache, now, cache0, cacheFrame>>

CacheNext ==
    \/ Tick
    \/ \E ps \in PageSizeOpts, mp \in MaxPagesOpts, nc \in BOOLEAN : CallScrape(ps, mp, nc)
    \/ \E kind \in {"fetch", "mismatch"} : WalkThrows(kind)
    \/ WalkReturns

CacheSpec == CacheInit /\ [][CacheNext]_vars

(***************************************************************************)
(* C22 as stated: when a list-page fetch fails or the count check throws,  *)
(* the error propagates, no result is returned, and the cache is exactly   *)
(* as it was before the call.                                              *)
(***************************************************************************)
C22_FailureLeavesCacheUntouched ==
    (lpc = "cache" /\ spc = "thrown") =>
        /\ error # None /\ result = None
        /\ cache = cache0

(***************************************************************************)
(* C22 amended: when a list-page fetch fails or the count check throws,    *)
(* the error propagates, no result is returned, and every cache entry is   *)
(* as it was before the call, except that an expired entry under the       *)
(* call's own key has been deleted by the lookup (noCache false).          *)
(***************************************************************************)
CallKey == cacheKey(reqUrl, pageSize, maxPages)

C22_FailureWritesNoEntry ==
    (lpc = "cache" /\ spc = "thrown") =>
        /\ error # None /\ result = None
        /\ \A k \in CacheKeys :
             \/ cache[k] = cache0[k]
             \/ /\ k = CallKey /\ ~noCache
                /\ cache[k] = <<>>
                /\ cache0[k] # <<>> /\ isExpired(cache0[k][1], now)

\* a call failed after its lookup had deleted the expired entry of its key
C22_Witness ==
    /\ lpc = "cache" /\ spc = "thrown" /\ error # None
    /\ cache0[CallKey] # <<>> /\ cache[CallKey] = <<>>
    /\ \E k \in CacheKeys : k # CallKey /\ cache[k] # <<>> /\ cache[k] = cache0[k]

(***************************************************************************)
(* C23: the status values written for one job are pending, then zero or    *)
(* more active, then exactly one terminal value (completed or failed);     *)
(* nothing is written after the terminal value.                            *)
(***************************************************************************)
WorkerEnded == jpc \in {"done", "failed", "unhandled"}

StatusPrefix ==
    \A k \in DOMAIN writes :
        /\ writes[k].status = "pending" <=> k = 1
        /\ writes[k].status \in TerminalStatus => k = Len(writes)

C23_StatusSequence ==
    lpc = "job" =>
        /\ StatusPrefix
        /\ WorkerEnded =>
             (writes # <<>> /\ writes[Len(writes)].status \in TerminalStatus)

(***************************************************************************)
(* C24: scrapeList requests the pages in ascending order 1, 2, .., each    *)
(* once, page p+1 only after page p has been fetched and merged; on return *)
(* pagesScraped is min(maxPages, totalPages) and the index of the last     *)
(* page fetched.                                                           *)
(***************************************************************************)
C24_PagesInOrder ==
    [][lpc = "list" =>
         /\ (spc # "fetch" /\ spc' = "fetch") =>
              /\ p' = p + 1
              /\ pagesScraped' = p
              /\ spc \in {"start", "pageDone", "sleep"}
         /\ spc = "fetch" => (p' = p /\ spc' \in {"pageDone", "thrown"})
         /\ (result = None /\ result' # None) =>
              /\ result'[1].pagesScraped =
                     (IF maxPages < result'[1].totalPages THEN maxPages
                      ELSE result'[1].totalPages)
              /\ result'[1].pagesScraped = p]_vars

\* two pages were announced and allowed; page 2 brought nothing new
C24_Witness ==
    /\ lpc = "list" /\ spc = "returned" /\ result # None
    /\ result[1].maxPages = 2 /\ result[1].totalPages = 2
    /\ result[1].pagesScraped = 2 /\ result[1].count = 1

(***************************************************************************)
(* C25: no detail fetch starts before the last list page has been merged;  *)
(* the result is returned and cached only after every dispatched           *)
(* enrichment has finished, and the records of the returned and cached     *)
(* result stay what they were at return.                                   *)
(***************************************************************************)
C25_EnrichmentBetweenWalkAndReturn ==
    lpc = "scrape" =>
        /\ spc \in {"start", "fetch", "pageDone", "sleep"} =>
             (missingPrices = <<>> /\ epc = <<>> /\ tstate = <<>> /\ active = 0)
        /\ spc = "returned" =>
             /\ \A t \in DOMAIN epc : epc[t] = "done" /\ tstate[t] = "released"
             /\ active = 0 /\ queue = <<>>
             /\ result # None /\ result[1].items = items
             /\ cache = result

\* returned after two enrichments, one of which found a price
C25_Witness ==
    /\ lpc = "scrape" /\ spc = "returned"
    /\ Len(epc) = 2
    /\ \E i \in DOMAIN items : items[i].priceSource = "detail-meta"
    /\ \E i \in DOMAIN items : items[i].priceSource = "detail-error"

(***************************************************************************)
(* C26: a record ends with priceSource detail-timeout only if the first    *)
(* attempt and the retry both failed with a timeout-class error; a retry   *)
(* that fails with another error ends with detail-error.                   *)
(***************************************************************************)
C26_TimeoutTagOnlyForTimeouts ==
    [][lpc = "scrape" =>
         \A t \in DOMAIN epc :
             (epc[t] \in {"threw1", "threw2"} /\ epc'[t] = "pause") =>
                 /\ items'[missingPrices[t]].priceSource = "detail-timeout" =>
                        (epc[t] = "threw2" /\ rej[t] = "timeout")
                 /\ rej[t] = "other" =>
                        items'[missingPrices[t]].priceSource = "detail-error"]_vars
(***************************************************************************)
(* ---------------  part_004: scrapePrices (115-164) --------------------- *)
(* The BullMQ processor: slices the listings into batches of               *)
(* CONFIG.enrichConcurrency, runs each batch under Promise.all, sleeps     *)
(* 500 ms between batches and returns results.                             *)
(***************************************************************************)
MaxJobListings == 3

\* the slicing loop is followed for at most this many batches
MaxBatches == 5

\* process.env.DETAIL_CONCURRENCY: unset, or one of these strings
EnvValues == {"unset", "0", "-1", "abc", "1", "2"}

\* parseInt(process.env.DETAIL_CONCURRENCY || '8')
parseIntEnv(e) ==
    CASE e = "unset" -> 8
      [] e = "0"     -> 0
      [] e = "-1"    -> 0 - 1
      [] e = "abc"   -> NaN
      [] e = "1"     -> 1
      [] e = "2"     -> 2

\* i += limit and i < listings.length on JavaScript numbers
jsAdd(a, b) == IF a = NaN \/ b = NaN THEN NaN ELSE a + b
jsLess(a, b) == a # NaN /\ b # NaN /\ a < b

\* the relative index Array.prototype.slice computes from an argument
sliceIndex(x, n) ==
    IF x = NaN THEN 0
    ELSE IF x < 0 THEN (IF n + x < 0 THEN 0 ELSE n + x)
    ELSE IF x > n THEN n ELSE x

\* listings.slice(from, to)
jsSlice(seq, from, to) ==
    SubSeq(seq, sliceIndex(from, Len(seq)) + 1, sliceIndex(to, Len(seq)))

\* job.data.listings
JobListings ==
    {[k \in 1..n |-> [id |-> k, title |-> Placeholder(k)]] : n \in 0..MaxJobListings}

\* what fetchPriceFromDetail resolves to (part_004 71-110)
DetailPrices ==
    {[price |-> 100, priceSource |-> "detail-meta"],
     [price |-> NoNum, priceSource |-> "detail-missing"]}

\* the entry pushed after a fetch (lines 135-142)
successEntry(listing, pd) ==
    [listingId |-> listing.id, success |-> TRUE,
     price |-> pd.price, priceSource |-> pd.priceSource]

\* the entry pushed by the catch block (lines 146-153)
failureEntry(listing) ==
    [listingId |-> listing.id, success |-> FALSE, price |-> NoNum, priceSource |-> ""]

pricesFrame == <<limiterVars, scrapeVars, jobVars, browserVars, callVars, shareVars>>

\* scrapePrices(job) is entered: lines 116-120, awaiting getBrowser()
PricesInit ==
    /\ ScrapeIdle /\ JobIdle /\ BrowserIdle /\ CallIdle /\ ShareIdle
    /\ concurrency = 0 /\ active = 0 /\ queue = <<>> /\ tstate = <<>>
    /\ outcome = <<>> /\ starts = <<>> /\ lpc = "prices"
    /\ listings \in JobListings
    /\ \E e \in EnvValues : enrichConcurrency = parseIntEnv(e)
    /\ batches = <<>> /\ sliceStart = 0 /\ wcur = 0 /\ wpc = "getBrowser"
    /\ tpc = <<>> /\ priceResults = <<>>

\* getBrowser() rejects: scrapePrices rejects
BrowserRejects ==
    /\ wpc = "getBrowser"
    /\ wpc' = "thrown"
    /\ UNCHANGED <<listings, enrichConcurrency, batches, sliceStart, wcur, tpc,
                   priceResults, pricesFrame>>

\* const br = await getBrowser() resolves; const limit, const batches, let i = 0
BrowserReady ==
    /\ wpc = "getBrowser"
    /\ wpc' = "slice"
    /\ UNCHANGED <<listings, enrichConcurrency, batches, sliceStart, wcur, tpc,
                   priceResults, pricesFrame>>

\* the mapped functions of a batch all start and run to their first await
startBatch(b) == [k \in DOMAIN b |-> "fetch"]

\* one pass of for (let i = 0; i < listings.length; i += limit)
SliceBatch ==
    /\ wpc = "slice"
    /\ jsLess(sliceStart, Len(listings))
    /\ Len(batches) < MaxBatches
    /\ batches' = Append(batches,
                         jsSlice(listings, sliceStart, jsAdd(sliceStart, enrichConcurrency)))
    /\ sliceStart' = jsAdd(sliceStart, enrichConcurrency)
    /\ UNCHANGED <<listings, enrichConcurrency, wcur, wpc, tpc, priceResults, pricesFrame>>

\* the slicing loop ends; the first batch starts, or the function returns
SliceDone ==
    /\ wpc = "slice"
    /\ ~jsLess(sliceStart, Len(listings))
    /\ IF batches = <<>>
       THEN wpc' = "returned" /\ UNCHANGED <<wcur, tpc>>
       ELSE wpc' = "batch" /\ wcur' = 1 /\ tpc' = startBatch(batches[1])
    /\ UNCHANGED <<listings, enrichConcurrency, batches, sliceStart, priceResults,
                   pricesFrame>>

\* fetchPriceFromDetail resolved: results.push({... success: true}), then
\* await job.updateProgress(...)
FetchResolved(k) ==
    /\ wpc = "batch" /\ k \in DOMAIN tpc /\ tpc[k] = "fetch"
    /\ \E pd \in DetailPrices :
         priceResults' = Append(priceResults, successEntry(batches[wcur][k], pd))
    /\ tpc' = [tpc EXCEPT ![k] = "progress"]
    /\ UNCHANGED <<listings, enrichConcurrency, batches, sliceStart, wcur, wpc, pricesFrame>>

\* fetchPriceFromDetail rejected: the catch block pushes the failure entry
FetchRejected(k) ==
    /\ wpc = "batch" /\ k \in DOMAIN tpc /\ tpc[k] = "fetch"
    /\ priceResults' = Append(priceResults, failureEntry(batches[wcur][k]))
    /\ tpc' = [tpc EXCEPT ![k] = "done"]
    /\ UNCHANGED <<listings, enrichConcurrency, batches, sliceStart, wcur, wpc, pricesFrame>>

\* job.updateProgress resolved
ProgressResolved(k) ==
    /\ wpc = "batch" /\ k \in DOMAIN tpc /\ tpc[k] = "progress"
    /\ tpc' = [tpc EXCEPT ![k] = "done"]
    /\ UNCHANGED <<listings, enrichConcurrency, batches, sliceStart, wcur, wpc,
                   priceResults, pricesFrame>>

\* job.updateProgress rejected inside the try: the same catch block runs
ProgressRejected(k) ==
    /\ wpc = "batch" /\ k \in DOMAIN tpc /\ tpc[k] = "progress"
    /\ priceResults' = Append(priceResults, failureEntry(batches[wcur][k]))
    /\ tpc' = [tpc EXCEPT ![k] = "done"]
    /\ UNCHANGED <<listings, enrichConcurrency, batches, sliceStart, wcur, wpc, pricesFrame>>

\* await Promise.all(...) resumes; await new Promise(setTimeout 500)
BatchSettled ==
    /\ wpc = "batch"
    /\ \A k \in DOMAIN tpc : tpc[k] = "done"
    /\ wpc' = "sleep"
    /\ tpc' = <<>>
    /\ UNCHANGED <<listings, enrichConcurrency, batches, sliceStart, wcur, priceResults,
                   pricesFrame>>

\* the sleep ends: the next batch starts, or results is returned
NextBatch ==
    /\ wpc = "sleep"
    /\ IF wcur < Len(batches)
       THEN wpc' = "batch" /\ wcur' = wcur + 1 /\ tpc' = startBatch(batches[wcur + 1])
       ELSE wpc' = "returned" /\ UNCHANGED <<wcur, tpc>>
    /\ UNCHANGED <<listings, enrichConcurrency, batches, sliceStart, priceResults,
                   pricesFrame>>

PricesNext ==
    \/ BrowserRejects \/ BrowserReady \/ SliceBatch \/ SliceDone
    \/ \E k \in 1..MaxJobListings :
         FetchResolved(k) \/ FetchRejected(k) \/ ProgressResolved(k) \/ ProgressRejected(k)
    \/ BatchSettled \/ NextBatch

PricesSpec == PricesInit /\ [][PricesNext]_vars

(***************************************************************************)
(* C27: scrapePrices returns exactly one result entry per input listing,   *)
(* whether the detail fetch succeeds or throws and whether or not the      *)
(* progress report fails (with a usable concurrency setting).              *)
(***************************************************************************)
EntriesOf(id) == {j \in DOMAIN priceResults : priceResults[j].listingId = id}

C27_OneEntryPerListing ==
    (lpc = "prices" /\ wpc = "returned" /\ enrichConcurrency >= 1) =>
        \A k \in DOMAIN listings : Cardinality(EntriesOf(listings[k].id)) = 1

(***************************************************************************)
(* C28: scrapePrices terminates and processes every listing for every      *)
(* value the concurrency setting can take (0, negative and non-numeric     *)
(* included): the slicing loop takes at least one listing per pass, so it  *)
(* makes at most listings.length batches, and at return every listing has  *)
(* been processed; at most enrichConcurrency fetches are in flight.        *)
(***************************************************************************)
C28_TerminatesForEveryConcurrency ==
    lpc = "prices" =>
        /\ Len(batches) <= Len(listings)
        /\ wpc = "returned" =>
             \A k \in DOMAIN listings : EntriesOf(listings[k].id) # {}
        /\ enrichConcurrency >= 1 =>
             Cardinality({k \in DOMAIN tpc : tpc[k] # "done"}) <= enrichConcurrency

(***************************************************************************)
(* C30: a call of scrapeChrono24 returns a cached result only when noCache *)
(* is false and the cache holds an entry that a call with the identical    *)
(* (url, pageSize, maxPages) stored no longer than cacheTTLms ago; then no *)
(* page is fetched and the stored data is returned marked fromCache.  In   *)
(* every other case the walk is performed, and a successful walk replaces  *)
(* the entry of the call's key, also when noCache is true.                 *)
(***************************************************************************)
C30_CachedOnlyForSameRequest ==
    [][lpc = "cache" =>
         /\ (spc # "walking" /\ now' = now /\ spc' \in {"returned", "walking"}) =>
              LET k == cacheKey(reqUrl', pageSize', maxPages')
                  fresh == cache[k] # <<>> /\ now - cache[k][1].ts <= cacheTTLms
                  same == cache[k] # <<>> /\ cache[k][1].data.pageSize = pageSize'
              IN  /\ spc' = "returned" =>
                       /\ ~noCache' /\ fresh /\ same
                       /\ result' = Some([cache[k][1].data EXCEPT !.fromCache = TRUE])
                       /\ cache' = cache
                  /\ (~noCache' /\ fresh /\ same) => spc' = "returned"
         /\ (spc = "walking" /\ spc' = "returned") =>
              /\ result' # None /\ ~result'[1].fromCache
              /\ cache' = [cache EXCEPT ![CallKey] = <<[ts |-> now, data |-> result'[1]]>>]
      ]_vars

(***************************************************************************)
(* ---------------  getBrowser(forceNew) (server.js 100-139)  ------------ *)
(* scrapeChrono24 calls getBrowser() (line 560) and fetches its pages on   *)
(* the instance it got; GET /api/ping-chrono24 (line 646) and              *)
(* GET /api/debug-goto (line 668) call getBrowser(true) and fetch one page *)
(* on theirs.  Callers are requests of the same process.                   *)
(***************************************************************************)
Routes == {"scrape", "ping", "debug"}

\* the forceNew argument each handler passes
forceNewOf(r) == r # "scrape"

\* getNextProxy(): PROXY_URL if set, else null (FREE_PROXIES is empty)
getNextProxy(purl) == purl

\* lines 103 and 109: the existing instance is closed before a new launch
mustClose(inst, force, proxy, cur) == inst # 0 /\ (force \/ proxy # cur)

shareFrame == <<limiterVars, scrapeVars, jobVars, callVars, workerVars>>

ShareInit ==
    /\ ScrapeIdle /\ JobIdle /\ CallIdle /\ WorkerIdle
    /\ concurrency = 0 /\ active = 0 /\ queue = <<>> /\ tstate = <<>>
    /\ outcome = <<>> /\ starts = <<>> /\ lpc = "share"
    /\ browserInstance = 0
    /\ gpc = [c \in Callers |-> "idle"]
    /\ got = [c \in Callers |-> 0]
    /\ launched = {}
    /\ route = [c \in Callers |-> "none"]
    /\ closed = {}
    /\ proxyUrl \in {Null, "http://proxy"}
    /\ currentBrowserProxy = Null

\* a handler calls getBrowser(forceNew), which runs to its first await:
\* browserInstance.close() (lines 105, 111), chromium.launch (134), or it
\* returns the existing instance (138) and the handler starts its page fetch
RouteCall(c, r) ==
    /\ gpc[c] = "idle"
    /\ route' = [route EXCEPT ![c] = r]
    /\ IF mustClose(browserInstance, forceNewOf(r), getNextProxy(proxyUrl),
                    currentBrowserProxy)
       THEN /\ closed' = closed \cup {browserInstance}
            /\ gpc' = [gpc EXCEPT ![c] = "closing"]
            /\ UNCHANGED got
       ELSE IF browserInstance = 0
       THEN /\ gpc' = [gpc EXCEPT ![c] = "launching"]
            /\ UNCHANGED <<closed, got>>
       ELSE /\ gpc' = [gpc EXCEPT ![c] = "fetching"]
            /\ got' = [got EXCEPT ![c] = browserInstance]
            /\ UNCHANGED closed
    /\ UNCHANGED <<browserInstance, launched, proxyUrl, currentBrowserProxy, shareFrame>>

\* await browserInstance.close().catch(() => {}) resumes: browserInstance = null,
\* then if (!browserInstance) chromium.launch(launchOptions) is awaited
CloseSettled(c) ==
    /\ gpc[c] = "closing"
    /\ browserInstance' = 0
    /\ gpc' = [gpc EXCEPT ![c] = "launching"]
    /\ UNCHANGED <<got, launched, route, closed, proxyUrl, currentBrowserProxy, shareFrame>>

\* browserInstance = await chromium.launch(launchOptions);
\* currentBrowserProxy = proxy; return browserInstance: the page fetch starts
ForceLaunchResolved(c) ==
    /\ gpc[c] = "launching"
    /\ LET b == Cardinality(launched) + 1 IN
         /\ launched' = launched \cup {b}
         /\ browserInstance' = b
         /\ got' = [got EXCEPT ![c] = b]
    /\ currentBrowserProxy' = getNextProxy(proxyUrl)
    /\ gpc' = [gpc EXCEPT ![c] = "fetching"]
    /\ UNCHANGED <<route, closed, proxyUrl, shareFrame>>

\* chromium.launch rejected: getBrowser rejects
ForceLaunchRejected(c) ==
    /\ gpc[c] = "launching"
    /\ gpc' = [gpc EXCEPT ![c] = "failed"]
    /\ UNCHANGED <<browserInstance, got, launched, route, closed, proxyUrl,
                   currentBrowserProxy, shareFrame>>

\* the caller's page fetches settle: on a closed browser they reject
PageFetchSettled(c) ==
    /\ gpc[c] = "fetching"
    /\ \E ok \in BOOLEAN :
         /\ ok => got[c] \notin closed
         /\ gpc' = [gpc EXCEPT ![c] = IF ok THEN "done" ELSE "failed"]
    /\ UNCHANGED <<browserInstance, got, launched, route, closed, proxyUrl,
                   currentBrowserProxy, shareFrame>>

ShareNext ==
    \E c \in Callers :
        \/ \E r \in Routes : RouteCall(c, r)
        \/ CloseSettled(c)
        \/ ForceLaunchResolved(c)
        \/ ForceLaunchRejected(c)
        \/ PageFetchSettled(c)

ShareSpec == ShareInit /\ [][ShareNext]_vars

(***************************************************************************)
(* C29: the shared browser is never closed while a page fetch that         *)
(* obtained it is in flight: while a caller (a scrapeChrono24 walk or      *)
(* enrichment in particular) is fetching on the instance getBrowser gave   *)
(* it, close() has not been called on that instance.                       *)
(***************************************************************************)
C29_NoCloseUnderFetch ==
    lpc = "share" =>
        \A c \in DOMAIN gpc : gpc[c] = "fetching" => got[c] \notin closed

====
